---- MODULE Spec2Model ----
(***************************************************************************)
(* Differential-testing harness of the esp_lvgl_port SIMD test apps:       *)
(* test-matrix generators, guarded buffer set-up, ASM/ANSI blit pair,      *)
(* equivalence evaluation and release.                                     *)
(***************************************************************************)
EXTENDS Integers, Naturals, Sequences, FiniteSets, TLC

VARIABLES
    test_matrix,    \* test_matrix_params_t / func_test_params_t of the running test case
    test_case,      \* test_case_params_t of the running test case
    loop,           \* the loop variables of functionality_test_matrix
    pc,             \* position of the running test case
    visited,        \* history: the arguments lv_fill_functionality was called with
    Unity,          \* Unity's per-test state (CurrentTestFailed)
    heap,           \* the allocator: live blocks and how often each block was freed
    mem             \* the bytes of every live block

vars == <<test_matrix, test_case, loop, pc, visited, Unity, heap, mem>>

\* ------------------------------------------------------------------ constants
LV_OPA_100 == 255
LV_OPA_MAX == 253
LV_OPA_MIN == 2
CANARY_BYTES == 4

\* ------------------------------------------------------------------ bounds
\* geometry of the scaled fill-with-OPA matrix
OpaMaxW == 8
OpaMaxH == 1
\* geometry of the scaled image matrix
ImgMaxW == 8
ImgMaxH == 2
ImgMaxUnalign == 1
\* opacity ranges <<min, max>> the image matrix is stepped over
ImgOpaRanges == {<<0, 255>>, <<100, 140>>, <<250, 255>>}
\* geometry of the scaled matrix of the main test app
MainMaxW == 9
MainMaxH == 2
MainMaxUnalign == 2
\* <<stride_step, unalign_step>> pairs of the scaled matrix
MainSteps == {<<1, 1>>, <<3, 2>>}
\* values test_combinations_count starts at
MainInitialCounts == {0, 7}
\* geometry, unalignments and number of the combinations run one after another
CaseMaxW == 2
CaseMaxH == 2
CaseUnaligns == {0, 1, 3, 16}
MaxCombos == 2

\* ------------------------------------------------------------------ Unity
\* A failing TEST_ASSERT_* records the failure and leaves the test case
\* (TEST_ABORT); a passing one falls through.
EvalOutcomes == {"pass", "fail"}

UnityInit == [CurrentTestFailed |-> FALSE]

\* an assertion that records the failure and lets the test case go on
TestAbort_Mutant ==
    /\ Unity' = [Unity EXCEPT !.CurrentTestFailed = TRUE]
    /\ pc' = pc

\* a TEST_ASSERT_* that fails: the failure is recorded and the test case left
\* (TEST_ABORT), nothing after the assertion runs
TestAbort ==
    /\ Unity' = [Unity EXCEPT !.CurrentTestFailed = TRUE]
    /\ pc' = "aborted"

\* ------------------------------------------------------------------ heap
\* a pointer is a block and a byte offset into it
NULL == [blk |-> 0, off |-> 0]

\* the buf member of test_case_params_t before any buffer is set up
NullBufs == [p_asm |-> NULL, p_ansi |-> NULL, p_asm_alloc |-> NULL, p_ansi_alloc |-> NULL]

\* the buf member of the image test's test_case_params_t
ImageNullBufs == [p_src |-> NULL, p_src_alloc |-> NULL, p_dest_asm |-> NULL,
                  p_dest_ansi |-> NULL, p_dest_asm_alloc |-> NULL,
                  p_dest_ansi_alloc |-> NULL]

\* no block allocated; blocks are numbered from 1 in allocation order
HeapInit == [next |-> 1, live |-> <<>>, frees |-> <<>>]

\* =========================================================================
\* functionality/main/test_lv_fill_functionality.c : test-matrix generator
\* =========================================================================

\* TEST_CASE("Test fill functionality ARGB8888")
FillARGB8888 ==
    [matrix |-> [min_w |-> 8, min_h |-> 1, max_w |-> 16, max_h |-> 16,
                 min_unalign_byte |-> 0, max_unalign_byte |-> 16,
                 unalign_step |-> 1, dest_stride_step |-> 1,
                 min_bg_opa |-> LV_OPA_100, min_fg_opa |-> LV_OPA_100,
                 bg_opa_step_percent |-> 0, fg_opa_step_percent |-> 0,
                 test_combinations_count |-> 0],
     tcase  |-> [name |-> "fill ARGB8888", color_format |-> "ARGB8888",
                 data_type_size |-> 4, operation_type |-> "OPERATION_FILL", buf |-> NullBufs]]

\* TEST_CASE("Test fill functionality with OPA ARGB8888"), its width and
\* height ranges cut down to min_w..OpaMaxW and min_h..OpaMaxH
FillOpaARGB8888 ==
    [matrix |-> [min_w |-> 8, min_h |-> 1, max_w |-> OpaMaxW, max_h |-> OpaMaxH,
                 min_unalign_byte |-> 0, max_unalign_byte |-> 0,
                 unalign_step |-> 1, dest_stride_step |-> 1,
                 min_bg_opa |-> 0, min_fg_opa |-> 0,
                 bg_opa_step_percent |-> 1, fg_opa_step_percent |-> 1,
                 test_combinations_count |-> 0],
     tcase  |-> [name |-> "fill OPA ARGB8888", color_format |-> "ARGB8888",
                 data_type_size |-> 4, operation_type |-> "OPERATION_FILL_WITH_OPA",
                 buf |-> NullBufs]]

\* TEST_CASE("Test fill functionality RGB565")
FillRGB565 ==
    [matrix |-> [min_w |-> 8, min_h |-> 1, max_w |-> 16, max_h |-> 16,
                 min_unalign_byte |-> 0, max_unalign_byte |-> 16,
                 unalign_step |-> 1, dest_stride_step |-> 1,
                 min_bg_opa |-> LV_OPA_100, min_fg_opa |-> LV_OPA_100,
                 bg_opa_step_percent |-> 0, fg_opa_step_percent |-> 0,
                 test_combinations_count |-> 0],
     tcase  |-> [name |-> "fill RGB565", color_format |-> "RGB565",
                 data_type_size |-> 2, operation_type |-> "OPERATION_FILL", buf |-> NullBufs]]

FillTestCases == {FillARGB8888, FillOpaARGB8888, FillRGB565}

\* the loop bound of the two opacity loops
FillOpaLoopCond(opa) == opa < LV_OPA_MAX

\* UPDATE_TEST_CASE
FillUpdateTestCase(tc, dest_w, dest_h, dest_stride, unalign_byte, bg_opa, fg_opa, test_count) ==
    [name |-> tc.name, color_format |-> tc.color_format, buf |-> tc.buf,
     data_type_size |-> tc.data_type_size, operation_type |-> tc.operation_type,
     active_buf_len |-> dest_h * dest_stride,
     total_buf_len |-> (dest_h * dest_stride) + (CANARY_BYTES * 2),
     dest_w |-> dest_w, dest_h |-> dest_h, dest_stride |-> dest_stride,
     unalign_byte |-> unalign_byte, bg_opa |-> bg_opa, fg_opa |-> fg_opa,
     test_combinations_count |-> test_count]

FillMatrixInit ==
    /\ \E t \in FillTestCases :
          /\ test_matrix = t.matrix
          /\ test_case = t.tcase
          /\ loop = [dest_w |-> t.matrix.min_w, dest_h |-> 0, dest_stride |-> 0,
                     unalign_byte |-> 0, bg_opa |-> 0, fg_opa |-> 0]
    /\ pc = "w"
    /\ visited = [geo |-> {}, bg |-> {}, fg |-> {}]
    /\ Unity = UnityInit
    /\ heap = HeapInit
    /\ mem = <<>>

\* for (int dest_w = min_w; dest_w <= max_w; dest_w++)
FillLoopW ==
    /\ pc = "w"
    /\ IF loop.dest_w <= test_matrix.max_w
       THEN /\ loop' = [loop EXCEPT !.dest_h = test_matrix.min_h]
            /\ pc' = "h"
       ELSE /\ pc' = "done"
            /\ UNCHANGED loop
    /\ UNCHANGED <<test_matrix, test_case, visited, Unity>>
    /\ UNCHANGED <<heap, mem>>

\* for (int dest_h = min_h; dest_h <= max_h; dest_h++)
FillLoopH ==
    /\ pc = "h"
    /\ IF loop.dest_h <= test_matrix.max_h
       THEN /\ loop' = [loop EXCEPT !.dest_stride = loop.dest_w]
            /\ pc' = "stride"
       ELSE /\ loop' = [loop EXCEPT !.dest_w = @ + 1]
            /\ pc' = "w"
    /\ UNCHANGED <<test_matrix, test_case, visited, Unity>>
    /\ UNCHANGED <<heap, mem>>

\* for (int dest_stride = dest_w; dest_stride <= dest_w; dest_stride += dest_stride_step)
FillLoopStride ==
    /\ pc = "stride"
    /\ IF loop.dest_stride <= loop.dest_w
       THEN /\ loop' = [loop EXCEPT !.unalign_byte = test_matrix.min_unalign_byte]
            /\ pc' = "unalign"
       ELSE /\ loop' = [loop EXCEPT !.dest_h = @ + 1]
            /\ pc' = "h"
    /\ UNCHANGED <<test_matrix, test_case, visited, Unity>>
    /\ UNCHANGED <<heap, mem>>

\* for (int unalign_byte = min_unalign_byte; unalign_byte <= max_unalign_byte; unalign_byte += unalign_step)
FillLoopUnalign ==
    /\ pc = "unalign"
    /\ IF loop.unalign_byte <= test_matrix.max_unalign_byte
       THEN /\ loop' = [loop EXCEPT !.bg_opa = test_matrix.min_bg_opa]
            /\ pc' = "bg"
       ELSE /\ loop' = [loop EXCEPT !.dest_stride = @ + test_matrix.dest_stride_step]
            /\ pc' = "stride"
    /\ UNCHANGED <<test_matrix, test_case, visited, Unity>>
    /\ UNCHANGED <<heap, mem>>

\* for (int bg_opa = min_bg_opa; bg_opa < LV_OPA_MAX; bg_opa += bg_opa_step_percent)
FillLoopBg ==
    /\ pc = "bg"
    /\ IF FillOpaLoopCond(loop.bg_opa)
       THEN /\ loop' = [loop EXCEPT !.fg_opa = test_matrix.min_fg_opa]
            /\ pc' = "fg"
       ELSE /\ loop' = [loop EXCEPT !.unalign_byte = @ + test_matrix.unalign_step]
            /\ pc' = "unalign"
    /\ UNCHANGED <<test_matrix, test_case, visited, Unity>>
    /\ UNCHANGED <<heap, mem>>

\* for (int fg_opa = min_fg_opa; fg_opa < LV_OPA_MAX; fg_opa += fg_opa_step_percent)
\*     { UPDATE_TEST_CASE; lv_fill_functionality(test_case); test_combinations_count++; }
\* lv_fill_functionality returns when every assertion of the evaluation
\* passes and leaves the test case at the first one that fails. next_count is
\* the value test_combinations_count++ leaves.
FillLoopFgStep(next_count) ==
    /\ pc = "fg"
    /\ IF FillOpaLoopCond(loop.fg_opa)
       THEN /\ test_case' = FillUpdateTestCase(test_case, loop.dest_w, loop.dest_h,
                                loop.dest_stride, loop.unalign_byte, loop.bg_opa,
                                loop.fg_opa, test_matrix.test_combinations_count)
            /\ visited' = [geo |-> visited.geo \cup
                                      {<<loop.dest_w, loop.dest_h, loop.unalign_byte>>},
                           bg  |-> visited.bg \cup {loop.bg_opa},
                           fg  |-> visited.fg \cup {loop.fg_opa}]
            /\ \E outcome \in EvalOutcomes :
                  /\ IF outcome = "pass"
                     THEN /\ pc' = "fg"
                          /\ UNCHANGED Unity
                     ELSE TestAbort
                  /\ IF pc' = "fg"
                     THEN \* the call returned: test_combinations_count++, fg_opa += step
                          /\ test_matrix' = [test_matrix EXCEPT
                                               !.test_combinations_count = next_count]
                          /\ loop' = [loop EXCEPT
                                        !.fg_opa = @ + test_matrix.fg_opa_step_percent]
                     ELSE UNCHANGED <<test_matrix, loop>>
       ELSE /\ loop' = [loop EXCEPT !.bg_opa = @ + test_matrix.bg_opa_step_percent]
            /\ pc' = "bg"
            /\ UNCHANGED <<test_matrix, test_case, visited, Unity>>
    /\ UNCHANGED <<heap, mem>>

\* the foreground loop with a count that stays far below the wrap of
\* unsigned int
FillLoopFg ==
    /\ pc = "fg"
    /\ FillLoopFgStep(test_matrix.test_combinations_count + 1)

FillMatrixNext ==
    \/ FillLoopW
    \/ FillLoopH
    \/ FillLoopStride
    \/ FillLoopUnalign
    \/ FillLoopBg
    \/ FillLoopFg

SpecFillMatrix == FillMatrixInit /\ [][FillMatrixNext]_vars

\* ------------------------------------------------------------------ unset steps
\* unsigned int test_combinations_count wraps at FillCountMod (2^32 on the
\* target)
FillCountMod == 8

\* opacities min_bg_opa and min_fg_opa are drawn from: below, at and above
\* LV_OPA_MAX
FillUnsetMins == {0, LV_OPA_MAX - 1, LV_OPA_MAX, LV_OPA_100}

\* bg_opa_step_percent and fg_opa_step_percent with at least one of them
\* unset (0)
FillUnsetSteps == {<<0, 0>>, <<0, 1>>, <<1, 0>>}

\* the ARGB8888 test matrix on one geometry, with the opacity minima and
\* steps given
FillUnset(min_bg, min_fg, bg_step, fg_step) ==
    [matrix |-> [FillARGB8888.matrix EXCEPT
                    !.max_w = 8, !.max_h = 1, !.max_unalign_byte = 0,
                    !.min_bg_opa = min_bg, !.min_fg_opa = min_fg,
                    !.bg_opa_step_percent = bg_step, !.fg_opa_step_percent = fg_step],
     tcase  |-> FillARGB8888.tcase]

FillUnsetCases ==
    {FillUnset(min_bg, min_fg, s[1], s[2]) :
        min_bg \in FillUnsetMins, min_fg \in FillUnsetMins, s \in FillUnsetSteps}

\* functionality_test_matrix entered with one of these matrices
FillUnsetInit ==
    /\ \E t \in FillUnsetCases :
          /\ test_matrix = t.matrix
          /\ test_case = t.tcase
          /\ loop = [dest_w |-> t.matrix.min_w, dest_h |-> 0, dest_stride |-> 0,
                     unalign_byte |-> 0, bg_opa |-> 0, fg_opa |-> 0]
    /\ pc = "w"
    /\ visited = [geo |-> {}, bg |-> {}, fg |-> {}]
    /\ Unity = UnityInit
    /\ heap = HeapInit
    /\ mem = <<>>

\* the foreground loop with test_combinations_count++ on unsigned int
FillLoopFgWrap ==
    /\ pc = "fg"
    /\ FillLoopFgStep((test_matrix.test_combinations_count + 1) % FillCountMod)

FillUnsetNext ==
    \/ FillLoopW
    \/ FillLoopH
    \/ FillLoopStride
    \/ FillLoopUnalign
    \/ FillLoopBg
    \/ FillLoopFgWrap

\* the test runs on: each statement of functionality_test_matrix is followed
\* by the next one
SpecFillUnset == FillUnsetInit /\ [][FillUnsetNext]_vars /\ WF_vars(FillUnsetNext)

\* =========================================================================
\* functionality/main/test_lv_image_functionality.c : test-matrix generator
\* =========================================================================

\* TEST_CASE("Test image functionality RGB565"), its ranges cut down to
\* min_w..ImgMaxW, min_h..ImgMaxH and unalignments 0..ImgMaxUnalign
ImageRGB565 ==
    [matrix |-> [min_w |-> 8, min_h |-> 2, max_w |-> ImgMaxW, max_h |-> ImgMaxH,
                 src_min_unalign_byte |-> 0, src_max_unalign_byte |-> ImgMaxUnalign,
                 src_unalign_step |-> 1, src_stride_step |-> 1,
                 dest_min_unalign_byte |-> 0, dest_max_unalign_byte |-> ImgMaxUnalign,
                 dest_unalign_step |-> 1, dest_stride_step |-> 1,
                 bg_opa |-> [min |-> LV_OPA_100, max |-> LV_OPA_100, step |-> 0],
                 fg_opa |-> [min |-> LV_OPA_100, max |-> LV_OPA_100, step |-> 0],
                 test_combinations_count |-> 0],
     tcase  |-> [name |-> "image RGB565", color_format |-> "RGB565",
                 src_data_type_size |-> 2, dest_data_type_size |-> 2,
                 operation_type |-> "OPERATION_FILL", buf |-> ImageNullBufs]]

\* the same test case stepping both opacities over lo..hi with fine step 1,
\* on one geometry
ImageOpaRange(lo, hi) ==
    [matrix |-> [min_w |-> 8, min_h |-> 2, max_w |-> 8, max_h |-> 2,
                 src_min_unalign_byte |-> 0, src_max_unalign_byte |-> 0,
                 src_unalign_step |-> 1, src_stride_step |-> 9,
                 dest_min_unalign_byte |-> 0, dest_max_unalign_byte |-> 0,
                 dest_unalign_step |-> 1, dest_stride_step |-> 9,
                 bg_opa |-> [min |-> lo, max |-> hi, step |-> 1],
                 fg_opa |-> [min |-> lo, max |-> hi, step |-> 1],
                 test_combinations_count |-> 0],
     tcase  |-> [name |-> "image RGB565 OPA", color_format |-> "RGB565",
                 src_data_type_size |-> 2, dest_data_type_size |-> 2,
                 operation_type |-> "OPERATION_FILL", buf |-> ImageNullBufs]]

ImageTestCases ==
    {ImageRGB565} \cup {ImageOpaRange(r[1], r[2]) : r \in ImgOpaRanges}

\* opa <= opa_max - 10 with opa_max unsigned int: the subtraction is done
\* modulo 2^32, so for opa_max < 10 the right side is at least 2^32 - 10 and
\* every opacity is below it
LeqMaxMinus10(opa, opa_max) ==
    IF opa_max >= 10 THEN opa <= opa_max - 10 ELSE TRUE

\* an UPDATE_OPA_STEP whose coarse region starts one value early
UpdateOpaStep_Mutant(opa_step, opa, opa_min, opa_max) ==
    IF (opa >= opa_min + 5) /\ LeqMaxMinus10(opa, opa_max) THEN 20 ELSE opa_step

\* UPDATE_OPA_STEP: the step the loop advances by after this iteration
UpdateOpaStep(opa_step, opa, opa_min, opa_max) ==
    IF (opa > opa_min + 5) /\ LeqMaxMinus10(opa, opa_max) THEN 20 ELSE opa_step

\* UPDATE_TEST_CASE
ImageUpdateTestCase(tc, dest_w, dest_h, src_stride, dest_stride, src_unalign_byte, dest_unalign_byte, bg_opa, fg_opa) ==
    [name |-> tc.name, color_format |-> tc.color_format, buf |-> tc.buf,
     src_data_type_size |-> tc.src_data_type_size,
     dest_data_type_size |-> tc.dest_data_type_size,
     operation_type |-> tc.operation_type,
     src_buf_len |-> dest_h * src_stride,
     active_dest_buf_len |-> dest_h * dest_stride,
     total_dest_buf_len |-> (dest_h * dest_stride) + (CANARY_BYTES * 2),
     dest_w |-> dest_w, dest_h |-> dest_h,
     src_stride |-> src_stride, dest_stride |-> dest_stride,
     src_unalign_byte |-> src_unalign_byte, dest_unalign_byte |-> dest_unalign_byte,
     bg_opa |-> bg_opa, fg_opa |-> fg_opa]

ImageMatrixInit ==
    /\ \E t \in ImageTestCases :
          /\ test_matrix = t.matrix
          /\ test_case = t.tcase
    /\ loop = [dest_w |-> 0, dest_h |-> 0, src_stride |-> 0, dest_stride |-> 0,
               src_unalign_byte |-> 0, dest_unalign_byte |-> 0,
               bg_opa |-> 0, fg_opa |-> 0, bg_opa_step |-> 0, fg_opa_step |-> 0]
    /\ pc = "entry"
    /\ visited = [bg |-> <<>>, fg |-> <<>>]
    /\ Unity = UnityInit
    /\ heap = HeapInit
    /\ mem = <<>>

\* an opacity step taken as the matrix gives it
AvoidZeroStep_Mutant(step) == step

\* "Avoid infinite loop": if (!opa.step) opa.step = 1;
AvoidZeroStep(step) == IF step = 0 THEN 1 ELSE step

\* if (!bg_opa.step) bg_opa.step = 1; if (!fg_opa.step) fg_opa.step = 1;
\* int bg_opa_step = bg_opa.step; int fg_opa_step = fg_opa.step;
ImageEntry ==
    /\ pc = "entry"
    /\ LET bg_step == AvoidZeroStep(test_matrix.bg_opa.step)
           fg_step == AvoidZeroStep(test_matrix.fg_opa.step)
       IN /\ test_matrix' = [test_matrix EXCEPT !.bg_opa.step = bg_step,
                                                 !.fg_opa.step = fg_step]
          /\ loop' = [loop EXCEPT !.bg_opa_step = bg_step, !.fg_opa_step = fg_step,
                                  !.dest_w = test_matrix.min_w]
    /\ pc' = "w"
    /\ UNCHANGED <<test_case, visited, Unity>>
    /\ UNCHANGED <<heap, mem>>

\* for (int dest_w = min_w; dest_w <= max_w; dest_w++)
ImageLoopW ==
    /\ pc = "w"
    /\ IF loop.dest_w <= test_matrix.max_w
       THEN /\ loop' = [loop EXCEPT !.dest_h = test_matrix.min_h]
            /\ pc' = "h"
       ELSE /\ pc' = "done"
            /\ UNCHANGED loop
    /\ UNCHANGED <<test_matrix, test_case, visited, Unity>>
    /\ UNCHANGED <<heap, mem>>

\* for (int dest_h = min_h; dest_h <= max_h; dest_h++)
ImageLoopH ==
    /\ pc = "h"
    /\ IF loop.dest_h <= test_matrix.max_h
       THEN /\ loop' = [loop EXCEPT !.src_stride = loop.dest_w]
            /\ pc' = "src_stride"
       ELSE /\ loop' = [loop EXCEPT !.dest_w = @ + 1]
            /\ pc' = "w"
    /\ UNCHANGED <<test_matrix, test_case, visited, Unity>>
    /\ UNCHANGED <<heap, mem>>

\* for (int src_stride = dest_w; src_stride <= dest_w * 2; src_stride += src_stride_step)
ImageLoopSrcStride ==
    /\ pc = "src_stride"
    /\ IF loop.src_stride <= loop.dest_w * 2
       THEN /\ loop' = [loop EXCEPT !.dest_stride = loop.dest_w]
            /\ pc' = "dest_stride"
       ELSE /\ loop' = [loop EXCEPT !.dest_h = @ + 1]
            /\ pc' = "h"
    /\ UNCHANGED <<test_matrix, test_case, visited, Unity>>
    /\ UNCHANGED <<heap, mem>>

\* for (int dest_stride = dest_w; dest_stride <= dest_w * 2; dest_stride += dest_stride_step)
ImageLoopDestStride ==
    /\ pc = "dest_stride"
    /\ IF loop.dest_stride <= loop.dest_w * 2
       THEN /\ loop' = [loop EXCEPT !.src_unalign_byte = test_matrix.src_min_unalign_byte]
            /\ pc' = "src_unalign"
       ELSE /\ loop' = [loop EXCEPT !.src_stride = @ + test_matrix.src_stride_step]
            /\ pc' = "src_stride"
    /\ UNCHANGED <<test_matrix, test_case, visited, Unity>>
    /\ UNCHANGED <<heap, mem>>

\* for (int src_unalign_byte = src_min; src_unalign_byte <= src_max; src_unalign_byte += src_unalign_step)
ImageLoopSrcUnalign ==
    /\ pc = "src_unalign"
    /\ IF loop.src_unalign_byte <= test_matrix.src_max_unalign_byte
       THEN /\ loop' = [loop EXCEPT !.dest_unalign_byte = test_matrix.dest_min_unalign_byte]
            /\ pc' = "dest_unalign"
       ELSE /\ loop' = [loop EXCEPT !.dest_stride = @ + test_matrix.dest_stride_step]
            /\ pc' = "dest_stride"
    /\ UNCHANGED <<test_matrix, test_case, visited, Unity>>
    /\ UNCHANGED <<heap, mem>>

\* for (int dest_unalign_byte = dest_min; dest_unalign_byte <= dest_max; dest_unalign_byte += dest_unalign_step)
ImageLoopDestUnalign ==
    /\ pc = "dest_unalign"
    /\ IF loop.dest_unalign_byte <= test_matrix.dest_max_unalign_byte
       THEN /\ loop' = [loop EXCEPT !.bg_opa = test_matrix.bg_opa.min]
            /\ visited' = [visited EXCEPT !.bg = <<>>]
            /\ pc' = "bg"
       ELSE /\ loop' = [loop EXCEPT !.src_unalign_byte = @ + test_matrix.src_unalign_step]
            /\ pc' = "src_unalign"
            /\ UNCHANGED visited
    /\ UNCHANGED <<test_matrix, test_case, Unity>>
    /\ UNCHANGED <<heap, mem>>

\* for (int bg_opa = bg_opa.min; bg_opa <= bg_opa.max; bg_opa += bg_opa_step)
\*     { UPDATE_OPA_STEP(bg_opa_step, ...); for (fg_opa ...) }
ImageLoopBg ==
    /\ pc = "bg"
    /\ IF loop.bg_opa <= test_matrix.bg_opa.max
       THEN /\ loop' = [loop EXCEPT
                          !.bg_opa_step = UpdateOpaStep(test_matrix.bg_opa.step, loop.bg_opa,
                                              test_matrix.bg_opa.min, test_matrix.bg_opa.max),
                          !.fg_opa = test_matrix.fg_opa.min]
            /\ visited' = [bg |-> Append(visited.bg, loop.bg_opa), fg |-> <<>>]
            /\ pc' = "fg"
       ELSE /\ loop' = [loop EXCEPT !.dest_unalign_byte = @ + test_matrix.dest_unalign_step]
            /\ pc' = "dest_unalign"
            /\ UNCHANGED visited
    /\ UNCHANGED <<test_matrix, test_case, Unity>>
    /\ UNCHANGED <<heap, mem>>

\* for (int fg_opa = fg_opa.min; fg_opa <= fg_opa.max; fg_opa += fg_opa_step)
\*     { UPDATE_OPA_STEP(fg_opa_step, ...); UPDATE_TEST_CASE;
\*       lv_fill_functionality(test_case); test_combinations_count++; }
ImageLoopFg ==
    /\ pc = "fg"
    /\ IF loop.fg_opa <= test_matrix.fg_opa.max
       THEN LET step == UpdateOpaStep(test_matrix.fg_opa.step, loop.fg_opa,
                                      test_matrix.fg_opa.min, test_matrix.fg_opa.max)
            IN /\ test_case' = ImageUpdateTestCase(test_case, loop.dest_w, loop.dest_h,
                                   loop.src_stride, loop.dest_stride, loop.src_unalign_byte,
                                   loop.dest_unalign_byte, loop.bg_opa, loop.fg_opa)
               /\ visited' = [visited EXCEPT !.fg = Append(@, loop.fg_opa)]
               /\ \E outcome \in EvalOutcomes :
                     IF outcome = "pass"
                     THEN /\ test_matrix' = [test_matrix EXCEPT !.test_combinations_count = @ + 1]
                          /\ loop' = [loop EXCEPT !.fg_opa_step = step, !.fg_opa = @ + step]
                          /\ pc' = "fg"
                          /\ UNCHANGED Unity
                     ELSE /\ Unity' = [Unity EXCEPT !.CurrentTestFailed = TRUE]
                          /\ loop' = [loop EXCEPT !.fg_opa_step = step]
                          /\ pc' = "aborted"
                          /\ UNCHANGED test_matrix
       ELSE /\ loop' = [loop EXCEPT !.bg_opa = @ + loop.bg_opa_step]
            /\ pc' = "bg"
            /\ UNCHANGED <<test_matrix, test_case, visited, Unity>>
    /\ UNCHANGED <<heap, mem>>

ImageMatrixNext ==
    \/ ImageEntry
    \/ ImageLoopW
    \/ ImageLoopH
    \/ ImageLoopSrcStride
    \/ ImageLoopDestStride
    \/ ImageLoopSrcUnalign
    \/ ImageLoopDestUnalign
    \/ ImageLoopBg
    \/ ImageLoopFg

SpecImageMatrix == ImageMatrixInit /\ [][ImageMatrixNext]_vars

\* ------------------------------------------------------------------ unset steps
\* opacity steps a test case may leave unset (0) or set
ImgOpaSteps == {<<0, 0>>, <<0, 1>>, <<1, 0>>, <<3, 0>>}

\* a test matrix with the opacity steps bg_step and fg_step
ImageWithSteps(t, bg_step, fg_step) ==
    [t EXCEPT !.matrix.bg_opa.step = bg_step, !.matrix.fg_opa.step = fg_step]

\* the test matrices of the image test over the opacity ranges, with steps
\* left unset
ImageUnsetCases ==
    {ImageRGB565}
    \cup {ImageWithSteps(ImageOpaRange(r[1], r[2]), s[1], s[2]) :
             r \in ImgOpaRanges, s \in ImgOpaSteps}

\* functionality_test_matrix entered with one of these matrices; loop.given
\* keeps the steps the matrix came with
ImageUnsetInit ==
    /\ \E t \in ImageUnsetCases :
          /\ test_matrix = t.matrix
          /\ test_case = t.tcase
          /\ loop = [dest_w |-> 0, dest_h |-> 0, src_stride |-> 0, dest_stride |-> 0,
                     src_unalign_byte |-> 0, dest_unalign_byte |-> 0,
                     bg_opa |-> 0, fg_opa |-> 0, bg_opa_step |-> 0, fg_opa_step |-> 0,
                     given |-> [bg |-> t.matrix.bg_opa.step, fg |-> t.matrix.fg_opa.step]]
    /\ pc = "entry"
    /\ visited = [bg |-> <<>>, fg |-> <<>>]
    /\ Unity = UnityInit
    /\ heap = HeapInit
    /\ mem = <<>>

\* the test runs on: each statement of functionality_test_matrix is followed
\* by the next one
SpecImageUnset ==
    ImageUnsetInit /\ [][ImageMatrixNext]_vars /\ WF_vars(ImageMatrixNext)

\* =========================================================================
\* main/test_lv_fill_functionality.c : test-matrix generator
\* =========================================================================

\* TEST_CASE("Test fill functionality ARGB8888") and ("... RGB565") declare
\* the same ranges; min_w..max_w is 8..16, min_h..max_h 1..16, unalignment
\* 0..16, both steps 1
MainDeclared(color_format) ==
    [color_format |-> color_format, min_w |-> 8, min_h |-> 1, max_w |-> 16, max_h |-> 16,
     min_unalign_byte |-> 0, max_unalign_byte |-> 16,
     unalign_step |-> 1, stride_step |-> 1, test_combinations_count |-> 0]

\* the declared matrices cut down to min_w..MainMaxW, min_h..MainMaxH and
\* unalignments 0..MainMaxUnalign, with the steps of MainSteps and the counter
\* starting at a value of MainInitialCounts
MainScaled(color_format, stride_step, unalign_step, count) ==
    [color_format |-> color_format, min_w |-> 8, min_h |-> 1,
     max_w |-> MainMaxW, max_h |-> MainMaxH,
     min_unalign_byte |-> 0, max_unalign_byte |-> MainMaxUnalign,
     unalign_step |-> unalign_step, stride_step |-> stride_step,
     test_combinations_count |-> count]

MainTestParams ==
    {MainScaled(f, s[1], s[2], c) : f \in {"ARGB8888", "RGB565"}, s \in MainSteps,
                                    c \in MainInitialCounts}

MainMatrixInit ==
    /\ test_matrix \in MainTestParams
    /\ test_case = [name |-> "fill", color_format |-> test_matrix.color_format]
    /\ loop = [w |-> test_matrix.min_w, h |-> 0, stride |-> 0, unalign_byte |-> 0]
    /\ pc = "w"
    /\ visited = [tuples |-> {}, calls |-> 0,
                  initial_count |-> test_matrix.test_combinations_count]
    /\ Unity = UnityInit
    /\ heap = HeapInit
    /\ mem = <<>>

\* for (int w = min_w; w <= max_w; w++)
MainLoopW ==
    /\ pc = "w"
    /\ IF loop.w <= test_matrix.max_w
       THEN /\ loop' = [loop EXCEPT !.h = test_matrix.min_h]
            /\ pc' = "h"
       ELSE /\ pc' = "done"
            /\ UNCHANGED loop
    /\ UNCHANGED <<test_matrix, test_case, visited, Unity>>
    /\ UNCHANGED <<heap, mem>>

\* for (int h = min_h; h <= max_h; h++)
MainLoopH ==
    /\ pc = "h"
    /\ IF loop.h <= test_matrix.max_h
       THEN /\ loop' = [loop EXCEPT !.stride = loop.w]
            /\ pc' = "stride"
       ELSE /\ loop' = [loop EXCEPT !.w = @ + 1]
            /\ pc' = "w"
    /\ UNCHANGED <<test_matrix, test_case, visited, Unity>>
    /\ UNCHANGED <<heap, mem>>

\* a stride loop that stops one short of w * 2
MainStrideCond_Mutant(stride, w) == stride < w * 2

\* the bound of the stride loop: stride <= w * 2
MainStrideCond(stride, w) == stride <= w * 2

\* for (int stride = w; stride <= w * 2; stride += stride_step)
MainLoopStride ==
    /\ pc = "stride"
    /\ IF MainStrideCond(loop.stride, loop.w)
       THEN /\ loop' = [loop EXCEPT !.unalign_byte = test_matrix.min_unalign_byte]
            /\ pc' = "unalign"
       ELSE /\ loop' = [loop EXCEPT !.h = @ + 1]
            /\ pc' = "h"
    /\ UNCHANGED <<test_matrix, test_case, visited, Unity>>
    /\ UNCHANGED <<heap, mem>>

\* for (int unalign_byte = min; unalign_byte <= max; unalign_byte += unalign_step)
\*     { switch (color_format) { lv_fill_argb8888_functionality(...) |
\*       lv_fill_rgb565_functionality(...) } test_combinations_count++; }
\* The functionality test returns when all its assertions pass and leaves the
\* test case at the first one that fails.
MainLoopUnalign ==
    /\ pc = "unalign"
    /\ IF loop.unalign_byte <= test_matrix.max_unalign_byte
       THEN /\ visited' = [visited EXCEPT
                              !.tuples = @ \cup {<<loop.w, loop.h, loop.stride,
                                                   loop.unalign_byte>>},
                              !.calls = @ + 1]
            /\ \E outcome \in EvalOutcomes :
                  IF outcome = "pass"
                  THEN /\ test_matrix' = [test_matrix EXCEPT !.test_combinations_count = @ + 1]
                       /\ loop' = [loop EXCEPT !.unalign_byte = @ + test_matrix.unalign_step]
                       /\ pc' = "unalign"
                       /\ UNCHANGED Unity
                  ELSE /\ Unity' = [Unity EXCEPT !.CurrentTestFailed = TRUE]
                       /\ pc' = "aborted"
                       /\ UNCHANGED <<test_matrix, loop>>
       ELSE /\ loop' = [loop EXCEPT !.stride = @ + test_matrix.stride_step]
            /\ pc' = "stride"
            /\ UNCHANGED <<test_matrix, visited, Unity>>
    /\ UNCHANGED test_case
    /\ UNCHANGED <<heap, mem>>

MainMatrixNext ==
    \/ MainLoopW
    \/ MainLoopH
    \/ MainLoopStride
    \/ MainLoopUnalign

SpecMainMatrix == MainMatrixInit /\ [][MainMatrixNext]_vars

\* =========================================================================
\* One matrix combination: buffers, blit pair, evaluation, release
\* =========================================================================

\* ------------------------------------------------------------------ memory
\* a byte of a block that nothing has written since it was allocated
Garbage == -1

\* memalign(alignment, size): a new block of size uninitialised bytes, or NULL
\* when the allocator is out of memory (ok = FALSE)
Memalign(h, m, alignment, size, ok) ==
    IF ok
    THEN [heap |-> [next  |-> h.next + 1,
                    live  |-> h.live @@ (h.next :> [size |-> size, align |-> alignment]),
                    frees |-> Append(h.frees, 0)],
          mem  |-> m @@ (h.next :> [i \in 0 .. size - 1 |-> Garbage]),
          ptr  |-> [blk |-> h.next, off |-> 0]]
    ELSE [heap |-> h, mem |-> m, ptr |-> NULL]

\* free(p): releases the block p points to; free(NULL) does nothing
Free(h, m, p) ==
    IF p = NULL
    THEN [heap |-> h, mem |-> m]
    ELSE [heap |-> [h EXCEPT !.live = [b \in DOMAIN h.live \ {p.blk} |-> h.live[b]],
                             !.frees[p.blk] = @ + 1],
          mem  |-> [b \in DOMAIN m \ {p.blk} |-> m[b]]]

\* memset(base, v, len) on the bytes of one block
Memset(bytes, base, v, len) ==
    [i \in DOMAIN bytes |-> IF base <= i /\ i < base + len THEN v ELSE bytes[i]]

\* the bytes of pixel px (size bytes each) of the array that starts at base
PixelBytes(bytes, base, size, px) ==
    [k \in 1 .. size |-> bytes[base + px * size + k - 1]]

\* little-endian bytes of a 16-bit and of a 32-bit value
U16Bytes(v) == <<v % 256, (v \div 256) % 256>>
U32Bytes(v) == <<v % 256, (v \div 256) % 256, (v \div 65536) % 256, (v \div 16777216) % 256>>

\* ------------------------------------------------------------------ colours
\* test_color / test_color_common
TestColor == [blue |-> 86, green |-> 52, red |-> 18]

Color32(bytes) == [blue |-> bytes[1], green |-> bytes[2], red |-> bytes[3], alpha |-> bytes[4]]
Color32Bytes(c) == <<c.blue, c.green, c.red, c.alpha>>

\* lv_color_to_u16: the RGB565 value of a colour
ColorToU16(c) ==
    ((c.red \div 8) * 2048) + ((c.green \div 4) * 32) + (c.blue \div 8)

\* lv_color_mix32(fg, bg): fg.alpha is the mix ratio, the result keeps bg.alpha
lv_color_mix32(fg, bg) ==
    IF fg.alpha >= LV_OPA_MAX THEN fg
    ELSE IF fg.alpha <= LV_OPA_MIN THEN bg
    ELSE [bg EXCEPT
            !.red   = ((fg.red * fg.alpha) + (bg.red * (255 - fg.alpha))) \div 256,
            !.green = ((fg.green * fg.alpha) + (bg.green * (255 - fg.alpha))) \div 256,
            !.blue  = ((fg.blue * fg.alpha) + (bg.blue * (255 - fg.alpha))) \div 256]

\* ------------------------------------------------------------------ blits
\* The pixel a fill writes over the pixel old: the colour itself at full
\* opacity, its mix with old below LV_OPA_MAX.
FillPixel(size, opa, old) ==
    IF size = 2 THEN U16Bytes(ColorToU16(TestColor))
    ELSE IF opa >= LV_OPA_MAX
         THEN Color32Bytes([blue |-> TestColor.blue, green |-> TestColor.green,
                            red |-> TestColor.red, alpha |-> 255])
         ELSE Color32Bytes(lv_color_mix32(
                  [blue |-> TestColor.blue, green |-> TestColor.green,
                   red |-> TestColor.red, alpha |-> opa], Color32(old)))

\* a fill of the dest_w x dest_h pixels at base, rows stride pixels apart
BlendFill(bytes, base, size, dest_w, dest_h, stride, opa) ==
    [i \in DOMAIN bytes |->
        LET rel == i - base
            px  == rel \div size
        IN IF rel >= 0 /\ px < dest_h * stride /\ px % stride < dest_w
           THEN FillPixel(size, opa, PixelBytes(bytes, base, size, px))[(rel % size) + 1]
           ELSE bytes[i]]

\* What an implementation under test may do besides the blit: nothing, or
\* change one byte of the guarded buffer (guards, active region or padding);
\* the byte is given by its offset from the start of the leading guard.  Of
\* the two implementations of a combination either one changes a byte, or
\* both change the same byte.
NoStray == [at |-> -1]
StrayWrites(total_bytes) == {NoStray} \cup {[at |-> o] : o \in 0 .. total_bytes - 1}

Stray(bytes, guard_base, f) ==
    IF f = NoStray THEN bytes
    ELSE [bytes EXCEPT ![guard_base + f.at] = 255 - @]

\* ------------------------------------------------------------------ assertions
\* the guard check TEST_ASSERT_EACH_EQUAL_UINTxx(0, p, CANARY_BYTES)
EachEqualZero(bytes, base, size, len) ==
    \A i \in base .. base + (len * size) - 1 : bytes[i] = 0

\* TEST_ASSERT_EQUAL_UINTxx_ARRAY(a, b, len)
EqualArray(bytes_a, base_a, bytes_b, base_b, size, len) ==
    \A i \in 0 .. (len * size) - 1 : bytes_a[base_a + i] = bytes_b[base_b + i]

\* =========================================================================
\* functionality/main/test_lv_fill_functionality.c : one combination
\* =========================================================================

\* the (operation, pixel size) pairs of the three test cases with the
\* opacities <<bg_opa, fg_opa>> a combination is run with
FillCaseInputs ==
    {[tcase |-> FillARGB8888.tcase, opa |-> <<LV_OPA_100, LV_OPA_100>>],
     [tcase |-> FillRGB565.tcase, opa |-> <<LV_OPA_100, LV_OPA_100>>],
     [tcase |-> FillOpaARGB8888.tcase, opa |-> <<0, 0>>],
     [tcase |-> FillOpaARGB8888.tcase, opa |-> <<252, 128>>]}

\* the test cases UPDATE_TEST_CASE can hand to lv_fill_functionality
FillCases(count) ==
    {FillUpdateTestCase(c.tcase, w, h, w, u, c.opa[1], c.opa[2], count) :
        c \in FillCaseInputs, w \in 1 .. CaseMaxW, h \in 1 .. CaseMaxH, u \in CaseUnaligns}

\* the size memalign is asked for, without the unalignment
FillAllocSize_Mutant(tc) == tc.total_buf_len * tc.data_type_size

\* the size memalign is asked for
FillAllocSize(tc) == (tc.total_buf_len * tc.data_type_size) + tc.unalign_byte

\* the bytes of a destination buffer after the memset and the fill loop
FillInitBytes(tc, bytes) ==
    LET base   == tc.unalign_byte
        size   == tc.data_type_size
        zeroed == Memset(bytes, base, 0, tc.total_buf_len * size)
        first  == CANARY_BYTES
        last   == tc.active_buf_len + CANARY_BYTES - 1
    IN IF tc.operation_type = "OPERATION_FILL"
       THEN \* dest_buf[i * data_type_size] = (uint8_t)(i % 255)
            [b \in DOMAIN zeroed |->
                LET rel == b - base
                IN IF rel >= 0 /\ rel % size = 0
                      /\ first <= rel \div size /\ rel \div size <= last
                   THEN (rel \div size) % 255 ELSE zeroed[b]]
       ELSE IF tc.operation_type = "OPERATION_FILL_WITH_OPA"
       THEN \* ((lv_color32_t *)dest_buf)[i] = bg_color
            [b \in DOMAIN zeroed |->
                LET rel == b - base
                IN IF rel >= 0 /\ first <= rel \div 4 /\ rel \div 4 <= last
                   THEN <<239, 205, 171, tc.bg_opa>>[(rel % 4) + 1] ELSE zeroed[b]]
       ELSE zeroed

\* the highest byte offset fill_test_bufs writes, from the allocation start
FillInitLastByte(tc) ==
    LET memset_last == tc.unalign_byte + (tc.total_buf_len * tc.data_type_size) - 1
        loop_last   == IF tc.operation_type = "OPERATION_FILL_WITH_OPA"
                       THEN tc.unalign_byte + ((tc.active_buf_len + CANARY_BYTES) * 4) - 1
                       ELSE tc.unalign_byte
                              + ((tc.active_buf_len + CANARY_BYTES - 1) * tc.data_type_size)
    IN IF loop_last > memset_last THEN loop_last ELSE memset_last

FillCaseInit ==
    /\ test_matrix = [app |-> "fill"]
    /\ test_case \in FillCases(0)
    /\ loop = <<>>
    /\ pc = "fill_test_bufs"
    /\ visited = [log |-> <<>>, combos |-> 1, stray |-> NoStray]
    /\ Unity = UnityInit
    /\ heap = HeapInit
    /\ mem = <<>>

\* fill_test_bufs
FillTestBufs ==
    /\ pc = "fill_test_bufs"
    /\ test_matrix.app = "fill"
    /\ \E ok_asm, ok_ansi \in BOOLEAN :
          LET mem_asm  == Memalign(heap, mem, 16, FillAllocSize(test_case), ok_asm)
              mem_ansi == Memalign(mem_asm.heap, mem_asm.mem, 16,
                                   FillAllocSize(test_case), ok_ansi)
              shift    == test_case.unalign_byte + (CANARY_BYTES * test_case.data_type_size)
          IN /\ heap' = mem_ansi.heap
             /\ IF mem_asm.ptr = NULL \/ mem_ansi.ptr = NULL
                THEN \* TEST_ASSERT_NOT_NULL_MESSAGE(mem_asm / mem_ansi, "Lack of memory")
                     /\ mem' = mem_ansi.mem
                     /\ visited' = [visited EXCEPT !.log = Append(@, "allocate")]
                     /\ TestAbort
                     /\ UNCHANGED test_case
                ELSE /\ mem' = [mem_ansi.mem EXCEPT
                                  ![mem_asm.ptr.blk]  = FillInitBytes(test_case, @),
                                  ![mem_ansi.ptr.blk] = FillInitBytes(test_case, @)]
                     /\ test_case' = [test_case EXCEPT !.buf =
                                        [NullBufs EXCEPT
                                           !.p_asm_alloc = mem_asm.ptr,
                                           !.p_ansi_alloc = mem_ansi.ptr,
                                           !.p_asm = [blk |-> mem_asm.ptr.blk, off |-> shift],
                                           !.p_ansi = [blk |-> mem_ansi.ptr.blk, off |-> shift]]]
                     /\ visited' = [visited EXCEPT !.log = @ \o <<"allocate", "initialise">>]
                     /\ pc' = "blend_asm"
                     /\ UNCHANGED Unity
    /\ UNCHANGED <<test_matrix, loop>>

\* test_case->blend_api_func(&dsc_asm)
FillBlendAsm ==
    /\ pc = "blend_asm"
    /\ test_matrix.app = "fill"
    /\ \E f \in StrayWrites(test_case.total_buf_len * test_case.data_type_size) :
          /\ mem' = [mem EXCEPT ![test_case.buf.p_asm.blk] =
                        Stray(BlendFill(@, test_case.buf.p_asm.off, test_case.data_type_size,
                                        test_case.dest_w, test_case.dest_h,
                                        test_case.dest_stride, test_case.fg_opa),
                              test_case.unalign_byte, f)]
          /\ visited' = [visited EXCEPT !.log = Append(@, "asm"), !.stray = f]
    /\ pc' = "blend_ansi"
    /\ UNCHANGED <<test_matrix, test_case, loop, Unity, heap>>

\* test_case->blend_api_func(&dsc_ansi)
FillBlendAnsi ==
    /\ pc = "blend_ansi"
    /\ test_matrix.app = "fill"
    /\ \E f \in StrayWrites(test_case.total_buf_len * test_case.data_type_size) :
          /\ f # NoStray => (visited.stray = NoStray \/ f = visited.stray)
          /\ mem' = [mem EXCEPT ![test_case.buf.p_ansi.blk] =
                        Stray(BlendFill(@, test_case.buf.p_ansi.off, test_case.data_type_size,
                                        test_case.dest_w, test_case.dest_h,
                                        test_case.dest_stride, test_case.fg_opa),
                              test_case.unalign_byte, f)]
          /\ visited' = [visited EXCEPT !.log = Append(@, "ansi")]
    /\ pc' = "eval"
    /\ UNCHANGED <<test_matrix, test_case, loop, Unity, heap>>

\* an evaluation that leaves out the trailing guard of the ASM buffer
FillEvalPasses_Mutant(tc, buf, m) ==
    LET size == tc.data_type_size
        ansi == m[buf.p_ansi.blk]
        asm  == m[buf.p_asm.blk]
    IN /\ EachEqualZero(ansi, buf.p_ansi.off, size, CANARY_BYTES)
       /\ EachEqualZero(asm, buf.p_asm.off, size, CANARY_BYTES)
       /\ EqualArray(ansi, buf.p_ansi.off + (CANARY_BYTES * size),
                     asm, buf.p_asm.off + (CANARY_BYTES * size), size, tc.active_buf_len)
       /\ EachEqualZero(ansi, buf.p_ansi.off + ((tc.total_buf_len - CANARY_BYTES) * size),
                        size, CANARY_BYTES)

\* test_eval_32bit_data / test_eval_16bit_data: every assertion passes; buf
\* holds the pointers shifted back to the leading guard
FillEvalPasses(tc, buf, m) ==
    LET size == tc.data_type_size
        ansi == m[buf.p_ansi.blk]
        asm  == m[buf.p_asm.blk]
    IN /\ EachEqualZero(ansi, buf.p_ansi.off, size, CANARY_BYTES)
       /\ EachEqualZero(asm, buf.p_asm.off, size, CANARY_BYTES)
       /\ EqualArray(ansi, buf.p_ansi.off + (CANARY_BYTES * size),
                     asm, buf.p_asm.off + (CANARY_BYTES * size), size, tc.active_buf_len)
       /\ EachEqualZero(ansi, buf.p_ansi.off + ((tc.total_buf_len - CANARY_BYTES) * size),
                        size, CANARY_BYTES)
       /\ EachEqualZero(asm, buf.p_asm.off + ((tc.total_buf_len - CANARY_BYTES) * size),
                        size, CANARY_BYTES)

\* p_asm -= CANARY_BYTES * data_type_size; p_ansi -= ...; then the evaluation
\* of the colour format
FillEval ==
    /\ pc = "eval"
    /\ test_matrix.app = "fill"
    /\ LET back == CANARY_BYTES * test_case.data_type_size
           buf  == [test_case.buf EXCEPT !.p_asm.off = @ - back, !.p_ansi.off = @ - back]
       IN /\ test_case' = [test_case EXCEPT !.buf = buf]
          /\ IF FillEvalPasses(test_case, buf, mem)
             THEN /\ pc' = "free"
                  /\ UNCHANGED Unity
             ELSE TestAbort
    /\ visited' = [visited EXCEPT !.log = Append(@, "compare")]
    /\ UNCHANGED <<test_matrix, loop, heap, mem>>

\* a release that forgets the ANSI buffer
FillFree_Mutant ==
    /\ pc = "free"
    /\ test_matrix.app = "fill"
    /\ LET f1 == Free(heap, mem, test_case.buf.p_asm_alloc)
       IN /\ heap' = f1.heap
          /\ mem' = f1.mem
    /\ visited' = [visited EXCEPT !.log = Append(@, "release")]
    /\ pc' = "returned"
    /\ UNCHANGED <<test_matrix, test_case, loop, Unity>>

\* free(p_asm_alloc); free(p_ansi_alloc);
FillFree ==
    /\ pc = "free"
    /\ test_matrix.app = "fill"
    /\ LET f1 == Free(heap, mem, test_case.buf.p_asm_alloc)
           f2 == Free(f1.heap, f1.mem, test_case.buf.p_ansi_alloc)
       IN /\ heap' = f2.heap
          /\ mem' = f2.mem
    /\ visited' = [visited EXCEPT !.log = Append(@, "release")]
    /\ pc' = "returned"
    /\ UNCHANGED <<test_matrix, test_case, loop, Unity>>

\* the next iteration of functionality_test_matrix: test_combinations_count++,
\* UPDATE_TEST_CASE, lv_fill_functionality(test_case)
FillNextCombination ==
    /\ pc = "returned"
    /\ test_matrix.app = "fill"
    /\ visited.combos < MaxCombos
    /\ \E tc \in FillCases(test_case.test_combinations_count + 1) :
          /\ tc.name = test_case.name
          /\ test_case' = [tc EXCEPT !.buf = test_case.buf]
    /\ visited' = [log |-> <<>>, combos |-> visited.combos + 1, stray |-> NoStray]
    /\ pc' = "fill_test_bufs"
    /\ UNCHANGED <<test_matrix, loop, Unity, heap, mem>>

\* =========================================================================
\* main/test_lv_fill_functionality.c : one combination
\* =========================================================================

\* sizeof(uint32_t) for ARGB8888, sizeof(uint16_t) for RGB565
MainPixelSize(color_format) == IF color_format = "ARGB8888" THEN 4 ELSE 2

\* const unsigned int total_len = ((h * stride) + (CANARY_BYTES * 2))
MainTotalLen(tc) == (tc.h * tc.stride) + (CANARY_BYTES * 2)

\* the arguments functionality_test_matrix can call the test with, and the
\* locals of the call before its first statement
MainCases ==
    {[color_format |-> f, w |-> w, h |-> h, stride |-> stride, unalign_byte |-> u,
      mem_asm |-> NULL, mem_ansi |-> NULL, dest_buff_asm |-> NULL, dest_buff_ansi |-> NULL] :
        f \in {"ARGB8888", "RGB565"},
        w \in 1 .. CaseMaxW, h \in 1 .. CaseMaxH,
        stride \in 1 .. 2 * CaseMaxW, u \in CaseUnaligns}

\* the size memalign is asked for
MainAllocSize(tc) == (MainTotalLen(tc) * MainPixelSize(tc.color_format)) + tc.unalign_byte

\* the three initialisation loops: leading guard 0, active part i, trailing guard 0
MainInitBytes(tc, bytes) ==
    LET size == MainPixelSize(tc.color_format)
    IN [b \in DOMAIN bytes |->
          LET rel == b - tc.unalign_byte
              i   == rel \div size
          IN IF rel < 0 \/ i >= MainTotalLen(tc) THEN bytes[b]
             ELSE IF i < CANARY_BYTES THEN 0
             ELSE IF i < (tc.h * tc.stride) + CANARY_BYTES
                  THEN IF size = 4 THEN U32Bytes(i)[(rel % size) + 1]
                                   ELSE U16Bytes(i)[(rel % size) + 1]
             ELSE 0]

MainCaseInit ==
    /\ test_matrix = [app |-> "main"]
    /\ test_case \in {tc \in MainCases : tc.w <= tc.stride /\ tc.stride <= 2 * tc.w}
    /\ loop = <<>>
    /\ pc = "setup"
    /\ visited = [log |-> <<>>, combos |-> 1, stray |-> NoStray]
    /\ Unity = UnityInit
    /\ heap = HeapInit
    /\ mem = <<>>

\* memalign of both buffers, the NULL checks, the initialisation loops and the
\* shift of both pointers past the leading guard
MainSetup ==
    /\ pc = "setup"
    /\ test_matrix.app = "main"
    /\ \E ok_asm, ok_ansi \in BOOLEAN :
          LET mem_asm  == Memalign(heap, mem, 16, MainAllocSize(test_case), ok_asm)
              mem_ansi == Memalign(mem_asm.heap, mem_asm.mem, 16,
                                   MainAllocSize(test_case), ok_ansi)
              shift    == test_case.unalign_byte
                            + (CANARY_BYTES * MainPixelSize(test_case.color_format))
          IN /\ heap' = mem_ansi.heap
             /\ IF mem_ansi.ptr = NULL \/ mem_asm.ptr = NULL
                THEN \* TEST_ASSERT_NOT_EQUAL(NULL, mem_ansi / mem_asm)
                     /\ mem' = mem_ansi.mem
                     /\ test_case' = [test_case EXCEPT !.mem_asm = mem_asm.ptr,
                                                       !.mem_ansi = mem_ansi.ptr]
                     /\ visited' = [visited EXCEPT !.log = Append(@, "allocate")]
                     /\ TestAbort
                ELSE /\ mem' = [mem_ansi.mem EXCEPT
                                  ![mem_asm.ptr.blk]  = MainInitBytes(test_case, @),
                                  ![mem_ansi.ptr.blk] = MainInitBytes(test_case, @)]
                     /\ test_case' = [test_case EXCEPT
                                        !.mem_asm = mem_asm.ptr,
                                        !.mem_ansi = mem_ansi.ptr,
                                        !.dest_buff_asm = [blk |-> mem_asm.ptr.blk, off |-> shift],
                                        !.dest_buff_ansi = [blk |-> mem_ansi.ptr.blk, off |-> shift]]
                     /\ visited' = [visited EXCEPT !.log = @ \o <<"allocate", "initialise">>]
                     /\ pc' = "blend_asm"
                     /\ UNCHANGED Unity
    /\ UNCHANGED <<test_matrix, loop>>

\* run_lv_blend_api: *use_asm = true; lv_draw_sw_blend(&draw_unit_asm, &blend_dsc)
MainBlendAsm ==
    /\ pc = "blend_asm"
    /\ test_matrix.app = "main"
    /\ \E f \in StrayWrites(MainTotalLen(test_case) * MainPixelSize(test_case.color_format)) :
          /\ mem' = [mem EXCEPT ![test_case.dest_buff_asm.blk] =
                        Stray(BlendFill(@, test_case.dest_buff_asm.off,
                                        MainPixelSize(test_case.color_format),
                                        test_case.w, test_case.h, test_case.stride, LV_OPA_MAX),
                              test_case.unalign_byte, f)]
          /\ visited' = [visited EXCEPT !.log = Append(@, "asm"), !.stray = f]
    /\ pc' = "blend_ansi"
    /\ UNCHANGED <<test_matrix, test_case, loop, Unity, heap>>

\* run_lv_blend_api: *use_asm = false; lv_draw_sw_blend(&draw_unit_ansi, &blend_dsc)
MainBlendAnsi ==
    /\ pc = "blend_ansi"
    /\ test_matrix.app = "main"
    /\ \E f \in StrayWrites(MainTotalLen(test_case) * MainPixelSize(test_case.color_format)) :
          /\ f # NoStray => (visited.stray = NoStray \/ f = visited.stray)
          /\ mem' = [mem EXCEPT ![test_case.dest_buff_ansi.blk] =
                        Stray(BlendFill(@, test_case.dest_buff_ansi.off,
                                        MainPixelSize(test_case.color_format),
                                        test_case.w, test_case.h, test_case.stride, LV_OPA_MAX),
                              test_case.unalign_byte, f)]
          /\ visited' = [visited EXCEPT !.log = Append(@, "ansi")]
    /\ pc' = "eval"
    /\ UNCHANGED <<test_matrix, test_case, loop, Unity, heap>>

\* test_eval_32bit_data / test_eval_16bit_data of test_functionality_eval.c:
\* every assertion passes
test_eval_data(size, buf, active_buf_len, total_buf_len, m) ==
    LET ansi == m[buf.p_ansi.blk]
        asm  == m[buf.p_asm.blk]
    IN /\ EachEqualZero(ansi, buf.p_ansi.off, size, CANARY_BYTES)
       /\ EachEqualZero(asm, buf.p_asm.off, size, CANARY_BYTES)
       /\ EqualArray(asm, buf.p_asm.off + (CANARY_BYTES * size),
                     ansi, buf.p_ansi.off + (CANARY_BYTES * size), size, active_buf_len)
       /\ EachEqualZero(ansi, buf.p_ansi.off + ((total_buf_len - CANARY_BYTES) * size),
                        size, CANARY_BYTES)
       /\ EachEqualZero(asm, buf.p_asm.off + ((total_buf_len - CANARY_BYTES) * size),
                        size, CANARY_BYTES)

\* the inline evaluation: every assertion passes; tc holds the pointers shifted
\* back to the leading guard
MainEvalPasses(tc, m) ==
    LET size      == MainPixelSize(tc.color_format)
        total_len == MainTotalLen(tc)
        ansi      == m[tc.dest_buff_ansi.blk]
        asm       == m[tc.dest_buff_asm.blk]
    IN /\ EachEqualZero(ansi, tc.dest_buff_ansi.off, size, CANARY_BYTES)
       /\ EachEqualZero(asm, tc.dest_buff_asm.off, size, CANARY_BYTES)
       /\ EqualArray(asm, tc.dest_buff_asm.off + (CANARY_BYTES * size),
                     ansi, tc.dest_buff_ansi.off + (CANARY_BYTES * size),
                     size, tc.h * tc.stride)
       /\ EachEqualZero(ansi, tc.dest_buff_ansi.off + ((total_len - CANARY_BYTES) * size),
                        size, CANARY_BYTES)
       /\ EachEqualZero(asm, tc.dest_buff_asm.off + ((total_len - CANARY_BYTES) * size),
                        size, CANARY_BYTES)

\* dest_buff_asm -= CANARY_BYTES * sizeof(pixel); dest_buff_ansi -= ...; then
\* the inline evaluation
MainEval ==
    /\ pc = "eval"
    /\ test_matrix.app = "main"
    /\ LET back == CANARY_BYTES * MainPixelSize(test_case.color_format)
           tc   == [test_case EXCEPT !.dest_buff_asm.off = @ - back,
                                     !.dest_buff_ansi.off = @ - back]
       IN /\ test_case' = tc
          /\ IF MainEvalPasses(tc, mem)
             THEN /\ pc' = "free"
                  /\ UNCHANGED Unity
             ELSE TestAbort
    /\ visited' = [visited EXCEPT !.log = Append(@, "compare")]
    /\ UNCHANGED <<test_matrix, loop, heap, mem>>

\* free(mem_ansi); free(mem_asm);   (RGB565: free(mem_asm); free(mem_ansi);)
MainFree ==
    /\ pc = "free"
    /\ test_matrix.app = "main"
    /\ LET first  == IF test_case.color_format = "ARGB8888"
                     THEN test_case.mem_ansi ELSE test_case.mem_asm
           second == IF test_case.color_format = "ARGB8888"
                     THEN test_case.mem_asm ELSE test_case.mem_ansi
           f1     == Free(heap, mem, first)
           f2     == Free(f1.heap, f1.mem, second)
       IN /\ heap' = f2.heap
          /\ mem' = f2.mem
    /\ visited' = [visited EXCEPT !.log = Append(@, "release")]
    /\ pc' = "returned"
    /\ UNCHANGED <<test_matrix, test_case, loop, Unity>>

\* the next iteration of the innermost loop of functionality_test_matrix: the
\* same w, h and stride with the next unalign_byte
MainNextCombination ==
    /\ pc = "returned"
    /\ test_matrix.app = "main"
    /\ visited.combos < MaxCombos
    /\ \E tc \in MainCases :
          /\ tc.color_format = test_case.color_format
          /\ tc.w = test_case.w /\ tc.h = test_case.h /\ tc.stride = test_case.stride
          /\ tc.unalign_byte > test_case.unalign_byte
          /\ \A u \in CaseUnaligns : ~(test_case.unalign_byte < u /\ u < tc.unalign_byte)
          /\ test_case' = tc
    /\ visited' = [log |-> <<>>, combos |-> visited.combos + 1, stray |-> NoStray]
    /\ pc' = "setup"
    /\ UNCHANGED <<test_matrix, loop, Unity, heap, mem>>

\* =========================================================================
\* functionality/main/test_lv_image_functionality.c : one combination
\* =========================================================================

\* the test cases UPDATE_TEST_CASE can hand to lv_fill_functionality
ImageCases ==
    {ImageUpdateTestCase(ImageRGB565.tcase, w, h, ss, ds, su, du, LV_OPA_100, LV_OPA_100) :
        w \in 1 .. CaseMaxW, h \in 1 .. CaseMaxH,
        ss \in 1 .. 2 * CaseMaxW, ds \in 1 .. 2 * CaseMaxW,
        su \in 0 .. ImgMaxUnalign, du \in 0 .. ImgMaxUnalign}

\* the sizes memalign is asked for
ImageSrcAllocSize(tc) == (tc.src_buf_len * tc.src_data_type_size) + tc.src_unalign_byte
ImageDestAllocSize(tc) ==
    (tc.total_dest_buf_len * tc.dest_data_type_size) + tc.dest_unalign_byte

\* the source buffer after the memset and the fill loop (odd values)
ImageInitSrcBytes(tc, bytes) ==
    LET base   == tc.src_unalign_byte
        zeroed == Memset(bytes, base, 0, tc.src_buf_len * tc.src_data_type_size)
    IN IF tc.operation_type = "OPERATION_FILL"
       THEN [b \in DOMAIN zeroed |->
                LET i == b - base
                IN IF 0 <= i /\ i < tc.src_buf_len * 2
                   THEN ((i * 2) + 1) % 256 ELSE zeroed[b]]
       ELSE zeroed

\* the length of memset(dest_buf, 0, total_dest_buf_len * src_data_type_size)
ImageDestMemsetLen(tc) == tc.total_dest_buf_len * tc.src_data_type_size

\* a destination buffer after the memset and the fill loop (even values)
ImageInitDestBytes(tc, bytes) ==
    LET base   == tc.dest_unalign_byte
        zeroed == Memset(bytes, base, 0, ImageDestMemsetLen(tc))
    IN IF tc.operation_type = "OPERATION_FILL"
       THEN [b \in DOMAIN zeroed |->
                LET i == b - base
                IN IF CANARY_BYTES * 2 <= i /\ i < (tc.active_dest_buf_len + CANARY_BYTES) * 2
                   THEN ((i - (CANARY_BYTES * 2)) * 2) % 256 ELSE zeroed[b]]
       ELSE zeroed

\* an image blit at full opacity without a mask: the dest_w pixels of each of
\* the dest_h source rows are copied to the destination row
BlendImage(dest, dest_base, src, src_base, size, dest_w, dest_h, dest_stride, src_stride) ==
    [i \in DOMAIN dest |->
        LET rel == i - dest_base
            px  == rel \div size
        IN IF rel >= 0 /\ px < dest_h * dest_stride /\ px % dest_stride < dest_w
           THEN src[src_base + ((((px \div dest_stride) * src_stride) + (px % dest_stride)) * size)
                             + (rel % size)]
           ELSE dest[i]]

ImageCaseInit ==
    /\ test_matrix = [app |-> "image"]
    /\ test_case \in {tc \in ImageCases :
                         /\ tc.dest_w <= tc.src_stride /\ tc.src_stride <= 2 * tc.dest_w
                         /\ tc.dest_w <= tc.dest_stride /\ tc.dest_stride <= 2 * tc.dest_w}
    /\ loop = <<>>
    /\ pc = "fill_test_bufs"
    /\ visited = [log |-> <<>>, combos |-> 1, stray |-> NoStray]
    /\ Unity = UnityInit
    /\ heap = HeapInit
    /\ mem = <<>>

\* fill_test_bufs
ImageTestBufs ==
    /\ pc = "fill_test_bufs"
    /\ test_matrix.app = "image"
    /\ \E ok_src, ok_asm, ok_ansi \in BOOLEAN :
          LET src_mem_common == Memalign(heap, mem, 16, ImageSrcAllocSize(test_case), ok_src)
              dest_mem_asm   == Memalign(src_mem_common.heap, src_mem_common.mem, 16,
                                         ImageDestAllocSize(test_case), ok_asm)
              dest_mem_ansi  == Memalign(dest_mem_asm.heap, dest_mem_asm.mem, 16,
                                         ImageDestAllocSize(test_case), ok_ansi)
              shift == test_case.dest_unalign_byte
                         + (CANARY_BYTES * test_case.dest_data_type_size)
          IN /\ heap' = dest_mem_ansi.heap
             /\ IF src_mem_common.ptr = NULL \/ dest_mem_asm.ptr = NULL
                   \/ dest_mem_ansi.ptr = NULL
                THEN \* TEST_ASSERT_NOT_NULL_MESSAGE(..., "Lack of memory")
                     /\ mem' = dest_mem_ansi.mem
                     /\ visited' = [visited EXCEPT !.log = Append(@, "allocate")]
                     /\ TestAbort
                     /\ UNCHANGED test_case
                ELSE /\ mem' = [dest_mem_ansi.mem EXCEPT
                                  ![src_mem_common.ptr.blk] = ImageInitSrcBytes(test_case, @),
                                  ![dest_mem_asm.ptr.blk]   = ImageInitDestBytes(test_case, @),
                                  ![dest_mem_ansi.ptr.blk]  = ImageInitDestBytes(test_case, @)]
                     /\ test_case' = [test_case EXCEPT !.buf =
                          [p_src_alloc       |-> src_mem_common.ptr,
                           p_dest_asm_alloc  |-> dest_mem_asm.ptr,
                           p_dest_ansi_alloc |-> dest_mem_ansi.ptr,
                           p_src       |-> [blk |-> src_mem_common.ptr.blk,
                                            off |-> test_case.src_unalign_byte],
                           p_dest_asm  |-> [blk |-> dest_mem_asm.ptr.blk, off |-> shift],
                           p_dest_ansi |-> [blk |-> dest_mem_ansi.ptr.blk, off |-> shift]]]
                     /\ visited' = [visited EXCEPT !.log = @ \o <<"allocate", "initialise">>]
                     /\ pc' = "blend_asm"
                     /\ UNCHANGED Unity
    /\ UNCHANGED <<test_matrix, loop>>

\* test_case->blend_api_func(&dsc_asm)
ImageBlendAsm ==
    /\ pc = "blend_asm"
    /\ test_matrix.app = "image"
    /\ \E f \in StrayWrites(test_case.total_dest_buf_len * test_case.dest_data_type_size) :
          /\ mem' = [mem EXCEPT ![test_case.buf.p_dest_asm.blk] =
                        Stray(BlendImage(@, test_case.buf.p_dest_asm.off,
                                         mem[test_case.buf.p_src.blk], test_case.buf.p_src.off,
                                         test_case.dest_data_type_size,
                                         test_case.dest_w, test_case.dest_h,
                                         test_case.dest_stride, test_case.src_stride),
                              test_case.dest_unalign_byte, f)]
          /\ visited' = [visited EXCEPT !.log = Append(@, "asm"), !.stray = f]
    /\ pc' = "blend_ansi"
    /\ UNCHANGED <<test_matrix, test_case, loop, Unity, heap>>

\* test_case->blend_api_func(&dsc_ansi)
ImageBlendAnsi ==
    /\ pc = "blend_ansi"
    /\ test_matrix.app = "image"
    /\ \E f \in StrayWrites(test_case.total_dest_buf_len * test_case.dest_data_type_size) :
          /\ f # NoStray => (visited.stray = NoStray \/ f = visited.stray)
          /\ mem' = [mem EXCEPT ![test_case.buf.p_dest_ansi.blk] =
                        Stray(BlendImage(@, test_case.buf.p_dest_ansi.off,
                                         mem[test_case.buf.p_src.blk], test_case.buf.p_src.off,
                                         test_case.dest_data_type_size,
                                         test_case.dest_w, test_case.dest_h,
                                         test_case.dest_stride, test_case.src_stride),
                              test_case.dest_unalign_byte, f)]
          /\ visited' = [visited EXCEPT !.log = Append(@, "ansi")]
    /\ pc' = "eval"
    /\ UNCHANGED <<test_matrix, test_case, loop, Unity, heap>>

\* the row loop of the evaluation: the dest_w pixels of every row of the ASM
\* destination equal those of the source row
ImageRowsEqualSrc(tc, buf, m) ==
    \A row \in 0 .. tc.dest_h - 1 :
        EqualArray(m[buf.p_dest_asm.blk],
                   buf.p_dest_asm.off + ((CANARY_BYTES + (row * tc.dest_stride)) * 2),
                   m[buf.p_src.blk], buf.p_src.off + ((row * tc.src_stride) * 2),
                   2, tc.dest_w)

\* an evaluation that compares ASM with ANSI over the declared row width only
ImageEvalPasses_Mutant(tc, buf, m) ==
    LET ansi == m[buf.p_dest_ansi.blk]
        asm  == m[buf.p_dest_asm.blk]
    IN /\ EachEqualZero(ansi, buf.p_dest_ansi.off, 2, CANARY_BYTES)
       /\ EachEqualZero(asm, buf.p_dest_asm.off, 2, CANARY_BYTES)
       /\ \A row \in 0 .. tc.dest_h - 1 :
             EqualArray(ansi, buf.p_dest_ansi.off + ((CANARY_BYTES + (row * tc.dest_stride)) * 2),
                        asm, buf.p_dest_asm.off + ((CANARY_BYTES + (row * tc.dest_stride)) * 2),
                        2, tc.dest_w)
       /\ ImageRowsEqualSrc(tc, buf, m)
       /\ EachEqualZero(ansi, buf.p_dest_ansi.off + ((tc.total_dest_buf_len - CANARY_BYTES) * 2),
                        2, CANARY_BYTES)
       /\ EachEqualZero(asm, buf.p_dest_asm.off + ((tc.total_dest_buf_len - CANARY_BYTES) * 2),
                        2, CANARY_BYTES)

\* test_eval_16bit_data: every assertion passes; buf holds the destination
\* pointers shifted back to the leading guard
ImageEvalPasses(tc, buf, m) ==
    LET ansi == m[buf.p_dest_ansi.blk]
        asm  == m[buf.p_dest_asm.blk]
    IN /\ EachEqualZero(ansi, buf.p_dest_ansi.off, 2, CANARY_BYTES)
       /\ EachEqualZero(asm, buf.p_dest_asm.off, 2, CANARY_BYTES)
       /\ EqualArray(ansi, buf.p_dest_ansi.off + (CANARY_BYTES * 2),
                     asm, buf.p_dest_asm.off + (CANARY_BYTES * 2), 2, tc.active_dest_buf_len)
       /\ ImageRowsEqualSrc(tc, buf, m)
       /\ EachEqualZero(ansi, buf.p_dest_ansi.off + ((tc.total_dest_buf_len - CANARY_BYTES) * 2),
                        2, CANARY_BYTES)
       /\ EachEqualZero(asm, buf.p_dest_asm.off + ((tc.total_dest_buf_len - CANARY_BYTES) * 2),
                        2, CANARY_BYTES)

\* p_dest_asm -= CANARY_BYTES * dest_data_type_size; p_dest_ansi -= ...; then
\* the evaluation of the colour format
ImageEval ==
    /\ pc = "eval"
    /\ test_matrix.app = "image"
    /\ LET back == CANARY_BYTES * test_case.dest_data_type_size
           buf  == [test_case.buf EXCEPT !.p_dest_asm.off = @ - back,
                                         !.p_dest_ansi.off = @ - back]
       IN /\ test_case' = [test_case EXCEPT !.buf = buf]
          /\ IF ImageEvalPasses(test_case, buf, mem)
             THEN /\ pc' = "free"
                  /\ UNCHANGED Unity
             ELSE TestAbort
    /\ visited' = [visited EXCEPT !.log = Append(@, "compare")]
    /\ UNCHANGED <<test_matrix, loop, heap, mem>>

\* free(p_dest_asm_alloc); free(p_dest_ansi_alloc); free(p_src_alloc);
ImageFree ==
    /\ pc = "free"
    /\ test_matrix.app = "image"
    /\ LET f1 == Free(heap, mem, test_case.buf.p_dest_asm_alloc)
           f2 == Free(f1.heap, f1.mem, test_case.buf.p_dest_ansi_alloc)
           f3 == Free(f2.heap, f2.mem, test_case.buf.p_src_alloc)
       IN /\ heap' = f3.heap
          /\ mem' = f3.mem
    /\ visited' = [visited EXCEPT !.log = Append(@, "release")]
    /\ pc' = "returned"
    /\ UNCHANGED <<test_matrix, test_case, loop, Unity>>

\* the next iteration of the unalignment loops of functionality_test_matrix:
\* the same geometry with the next dest_unalign_byte
ImageNextCombination ==
    /\ pc = "returned"
    /\ test_matrix.app = "image"
    /\ visited.combos < MaxCombos
    /\ test_case.dest_unalign_byte < ImgMaxUnalign
    /\ test_case' = ImageUpdateTestCase(test_case, test_case.dest_w, test_case.dest_h,
                        test_case.src_stride, test_case.dest_stride,
                        test_case.src_unalign_byte, test_case.dest_unalign_byte + 1,
                        test_case.bg_opa, test_case.fg_opa)
    /\ visited' = [log |-> <<>>, combos |-> visited.combos + 1, stray |-> NoStray]
    /\ pc' = "fill_test_bufs"
    /\ UNCHANGED <<test_matrix, loop, Unity, heap, mem>>

CaseNext ==
    \/ FillTestBufs
    \/ FillBlendAsm
    \/ FillBlendAnsi
    \/ FillEval
    \/ FillFree
    \/ FillNextCombination
    \/ MainSetup
    \/ MainBlendAsm
    \/ MainBlendAnsi
    \/ MainEval
    \/ MainFree
    \/ MainNextCombination
    \/ ImageTestBufs
    \/ ImageBlendAsm
    \/ ImageBlendAnsi
    \/ ImageEval
    \/ ImageFree
    \/ ImageNextCombination

CaseInit ==
    \/ FillCaseInit
    \/ MainCaseInit
    \/ ImageCaseInit

SpecCase == CaseInit /\ [][CaseNext]_vars

\* =========================================================================
\* Selection of the assembly routine of a solid fill
\* (esp_lvgl_port_lv_blend.h)
\* =========================================================================
\* geometry of the destination the descriptor of a dispatched fill describes
DispMaxW == 3
DispMaxH == 2
DispMaxPad == 1

\* CONFIG_IDF_TARGET_ESP32S3, CONFIG_IDF_TARGET_ESP32, any other target
Targets == {"ESP32S3", "ESP32", "other"}

\* the destination formats that have a dispatch function
DispatchFormats == {"ARGB8888", "RGB565"}

\* the test !LV_BLEND_USE_ASM lets a dispatch function pass only if set
BlendUseAsm_Mutant(m) == TRUE

BlendUseAsm(m) == m.LV_BLEND_USE_ASM

\* the routine the preprocessor branches of _lv_color_blend_to_argb8888_esp32
\* select for a target
Argb8888Routine(target) ==
    IF target = "ESP32S3" THEN "lv_color_blend_to_argb8888_esp32_aes3"
    ELSE IF target = "ESP32" THEN "lv_color_blend_to_argb8888_esp32_ae32"
    ELSE "none"

\* the routine the preprocessor branches of _lv_color_blend_to_rgb565_esp32
\* select for a target: the ESP32-S3 branch calls the ESP32 routine
Rgb565Routine(target) ==
    IF target = "ESP32S3" THEN "lv_color_blend_to_rgb565_esp32_ae32"
    ELSE IF target = "ESP32" THEN "lv_color_blend_to_rgb565_esp32_ae32"
    ELSE "none"

\* asm_dsc_t built from the fill descriptor
AsmDsc(dsc) ==
    [dst_buf    |-> dsc.dest_buf,
     dst_w      |-> dsc.dest_w,
     dst_h      |-> dsc.dest_h,
     dst_stride |-> dsc.dest_stride,
     src_buf    |-> dsc.color]

\* an assembly fill routine run on asm_dsc: fills dst_w x dst_h pixels of
\* size bytes, rows dst_stride bytes apart
AsmFill(bytes, asm_dsc, size) ==
    BlendFill(bytes, asm_dsc.dst_buf.off, size, asm_dsc.dst_w, asm_dsc.dst_h,
              asm_dsc.dst_stride \div size, LV_OPA_MAX)

\* what a dispatch function does once the routine is selected
DispatchTo(routine, size) ==
    IF ~BlendUseAsm(test_matrix) \/ routine = "none"
    THEN /\ visited' = [visited EXCEPT !.ret = "LV_RESULT_INVALID"]
         /\ UNCHANGED mem
    ELSE /\ visited' = [visited EXCEPT !.called  = routine,
                                       !.asm_dsc = AsmDsc(test_case),
                                       !.ret     = "LV_RESULT_OK"]
         /\ mem' = [mem EXCEPT ![test_case.dest_buf.blk] =
                        AsmFill(@, AsmDsc(test_case), size)]

\* the state a blend function is in when it reaches the dispatch macro
DispatchInit ==
    \E target \in Targets, flag \in BOOLEAN, cf \in DispatchFormats,
       w \in 1 .. DispMaxW, h \in 1 .. DispMaxH, pad \in 0 .. DispMaxPad :
        LET size == MainPixelSize(cf)
            a    == Memalign(HeapInit, <<>>, 16, (w + pad) * h * size, TRUE)
            m0   == [a.mem EXCEPT ![a.ptr.blk] = Memset(@, 0, 0, (w + pad) * h * size)]
            dsc  == [color_format |-> cf,
                     dest_buf     |-> a.ptr,
                     dest_w       |-> w,
                     dest_h       |-> h,
                     dest_stride  |-> (w + pad) * size,
                     color        |-> TestColor,
                     opa          |-> LV_OPA_MAX]
        IN /\ test_matrix = [target |-> target, LV_BLEND_USE_ASM |-> flag]
           /\ test_case = dsc
           /\ loop = <<>>
           /\ pc = IF cf = "ARGB8888" THEN "LV_DRAW_SW_COLOR_BLEND_TO_ARGB8888"
                   ELSE "LV_DRAW_SW_COLOR_BLEND_TO_RGB565"
           /\ visited = [before  |-> [dsc |-> dsc, mem |-> m0],
                         called  |-> "none",
                         asm_dsc |-> NULL,
                         ret     |-> "none"]
           /\ Unity = UnityInit
           /\ heap = a.heap
           /\ mem = m0

lv_color_blend_to_argb8888_esp32 ==
    /\ pc = "LV_DRAW_SW_COLOR_BLEND_TO_ARGB8888"
    /\ DispatchTo(Argb8888Routine(test_matrix.target), 4)
    /\ pc' = "returned"
    /\ UNCHANGED <<test_matrix, test_case, loop, Unity, heap>>

lv_color_blend_to_rgb565_esp32 ==
    /\ pc = "LV_DRAW_SW_COLOR_BLEND_TO_RGB565"
    /\ DispatchTo(Rgb565Routine(test_matrix.target), 2)
    /\ pc' = "returned"
    /\ UNCHANGED <<test_matrix, test_case, loop, Unity, heap>>

DispatchNext ==
    \/ lv_color_blend_to_argb8888_esp32
    \/ lv_color_blend_to_rgb565_esp32

SpecDispatch == DispatchInit /\ [][DispatchNext]_vars

\* =========================================================================
\* Colour mixing (lv_color_op.h)
\* =========================================================================
\* colours and background alphas the mixing functions are applied to
MixColors ==
    {[red |-> c[1], green |-> c[2], blue |-> c[3]] :
        c \in {<<0, 0, 0>>, <<255, 255, 255>>, <<0, 127, 255>>,
               <<1, 128, 254>>, <<18, 52, 86>>, <<171, 205, 239>>}}
MixBgAlphas == {0, 128, 255}
\* every opacity / mix ratio of an 8-bit lv_opa_t
MixOpas == 0 .. 255
\* the values lv_conf.h documents for LV_COLOR_MIX_ROUND_OFS
RoundOfsValues == {0, 64, 128, 192, 254}

\* a division by 256 in place of the division by 255
LV_UDIV255_Mutant(x) == x \div 256

\* LV_UDIV255(x) = (x * 0x8081) >> 23; for the arguments lv_color_mix passes
\* (at most 255 * 255 + 254) the product stays within 32 bits
LV_UDIV255(x) == (x * 32897) \div 8388608

\* lv_color_mix with the weight 256 - mix for c2
lv_color_mix_Mutant(c1, c2, mix) ==
    LET ofs == test_matrix.LV_COLOR_MIX_ROUND_OFS
    IN [red   |-> LV_UDIV255((c1.red * mix) + (c2.red * (256 - mix)) + ofs) % 256,
        green |-> LV_UDIV255((c1.green * mix) + (c2.green * (256 - mix)) + ofs) % 256,
        blue  |-> LV_UDIV255((c1.blue * mix) + (c2.blue * (256 - mix)) + ofs) % 256]

\* lv_color_mix(c1, c2, mix): 0 is full c2, 255 is full c1
lv_color_mix(c1, c2, mix) ==
    LET ofs == test_matrix.LV_COLOR_MIX_ROUND_OFS
    IN [red   |-> LV_UDIV255((c1.red * mix) + (c2.red * (255 - mix)) + ofs) % 256,
        green |-> LV_UDIV255((c1.green * mix) + (c2.green * (255 - mix)) + ofs) % 256,
        blue  |-> LV_UDIV255((c1.blue * mix) + (c2.blue * (255 - mix)) + ofs) % 256]

\* a colour with an alpha channel (lv_color32_t)
WithAlpha(c, a) == [blue |-> c.blue, green |-> c.green, red |-> c.red, alpha |-> a]

\* the arguments of one call of lv_color_mix32 or of lv_color_mix
MixInit ==
    /\ \/ \E fg \in MixColors, bg \in MixColors, opa \in MixOpas, a \in MixBgAlphas :
            /\ test_case = [fg |-> WithAlpha(fg, opa), bg |-> WithAlpha(bg, a)]
            /\ test_matrix = [LV_COLOR_MIX_ROUND_OFS |-> 0]
            /\ pc = "lv_color_mix32"
       \/ \E c1 \in MixColors, c2 \in MixColors, mix \in MixOpas, ofs \in RoundOfsValues :
            /\ test_case = [c1 |-> c1, c2 |-> c2, mix |-> mix]
            /\ test_matrix = [LV_COLOR_MIX_ROUND_OFS |-> ofs]
            /\ pc = "lv_color_mix"
    /\ loop = <<>>
    /\ visited = [fn |-> "none", ret |-> NULL]
    /\ Unity = UnityInit
    /\ heap = HeapInit
    /\ mem = <<>>

MixCall32 ==
    /\ pc = "lv_color_mix32"
    /\ visited' = [fn |-> "lv_color_mix32", ret |-> lv_color_mix32(test_case.fg, test_case.bg)]
    /\ pc' = "mixed"
    /\ UNCHANGED <<test_matrix, test_case, loop, Unity, heap, mem>>

MixCall ==
    /\ pc = "lv_color_mix"
    /\ visited' = [fn |-> "lv_color_mix",
                   ret |-> lv_color_mix(test_case.c1, test_case.c2, test_case.mix)]
    /\ pc' = "mixed"
    /\ UNCHANGED <<test_matrix, test_case, loop, Unity, heap, mem>>

MixNext ==
    \/ MixCall32
    \/ MixCall

SpecMix == MixInit /\ [][MixNext]_vars

\* =========================================================================
\* Benchmark of the fill (test_lv_fill_benchmark.c of the main and of the
\* benchmark test app)
\* =========================================================================
UNALIGN_BYTES == 1
LV_OPA_10 == 25

\* WIDTH, HEIGHT and BENCHMARK_CYCLES, scaled down; STRIDE is WIDTH
BenchWidth == 3
BenchHeight == 3
BenchMaxCycles == 2
BenchStride == BenchWidth
\* the cycle counter wraps at CcountMod (2^32 on the target)
CcountMod == 8
\* cycles one call of the function under test may take
BenchCosts == {1, 2}
\* values the cycle counter may hold when a test case starts
BenchCcounts == {0, CcountMod - 1}
\* the byte an uninitialised block happens to hold
BenchUninit == {0, 255}

BenchHarnesses == {"main", "benchmark"}
BenchTests == {"fill_argb8888", "fill_opa_argb8888", "fill_rgb565"}

\* bg_color
BgColor == [blue |-> 239, green |-> 205, red |-> 171]

BenchPixelSize(name) == IF name = "fill_rgb565" THEN 2 ELSE 4

BenchOperation(name) ==
    IF name = "fill_opa_argb8888" THEN "OPERATION_FILL_WITH_OPA" ELSE "OPERATION_FILL"

\* the size passed to memalign
BenchAllocSize(name) == (BenchStride * BenchHeight * BenchPixelSize(name)) + UNALIGN_BYTES

\* p + n on a pointer to elements of elem_size bytes
PtrAdd(p, n, elem_size) == [p EXCEPT !.off = @ + (n * elem_size)]

\* dest_array_align1: the destination of the corner case
BenchCornerPtr(harness, name, p) ==
    IF name = "fill_opa_argb8888" THEN p
    ELSE IF harness = "benchmark" /\ name = "fill_rgb565"
         THEN PtrAdd(p, UNALIGN_BYTES, 1)
         ELSE PtrAdd(p, UNALIGN_BYTES, BenchPixelSize(name))

\* the bytes the test case sets to zero before the benchmark starts
BenchInitialMemset(harness, name, bytes) ==
    IF name # "fill_opa_argb8888" THEN bytes
    ELSE IF harness = "main"
         THEN Memset(bytes, 0, 0, BenchAllocSize(name))
         ELSE Memset(bytes, 0, 0, BenchStride * BenchHeight)

\* bench_test_case_params_t / bench_test_params_t of a test case
BenchTestParams(harness, name, cycles, p) ==
    [harness          |-> harness,
     name             |-> name,
     height           |-> BenchHeight,
     width            |-> BenchWidth,
     stride           |-> BenchStride,
     cc_height        |-> IF harness = "benchmark" /\ name = "fill_opa_argb8888"
                          THEN BenchHeight ELSE BenchHeight - 1,
     cc_width         |-> IF harness = "benchmark" /\ name = "fill_opa_argb8888"
                          THEN BenchWidth ELSE BenchWidth - 1,
     benchmark_cycles |-> cycles,
     dest_array       |-> p,
     dest_array_cc    |-> BenchCornerPtr(harness, name, p),
     fg_opa           |-> IF name = "fill_opa_argb8888" THEN LV_OPA_10 ELSE LV_OPA_MAX,
     operation_type   |-> BenchOperation(name),
     data_type_size   |-> BenchPixelSize(name),
     alloc_size       |-> BenchAllocSize(name)]

\* lv_fill_benchmark_init runs the benchmark loop 4 times in the main test
\* app (ASM common, ASM corner, ANSI common, ANSI corner) and twice in the
\* benchmark test app (ideal, corner)
BenchRuns(tp) == IF tp.harness = "main" THEN 4 ELSE 2

BenchIsCorner(run) == run % 2 = 0

\* the fill descriptor (main) or the areas and draw buffer (benchmark) of a run
BenchDsc(tp, run) ==
    [dest_buf    |-> IF BenchIsCorner(run) THEN tp.dest_array_cc ELSE tp.dest_array,
     dest_w      |-> IF BenchIsCorner(run) THEN tp.cc_width ELSE tp.width,
     dest_h      |-> IF BenchIsCorner(run) THEN tp.cc_height ELSE tp.height,
     dest_stride |-> tp.stride,
     opa         |-> tp.fg_opa,
     use_asm     |-> (tp.harness = "main" /\ run <= 2),
     dynamic_bg_opa |-> (tp.operation_type = "OPERATION_FILL_WITH_OPA" /\ BenchIsCorner(run))]

\* count pixels from base on, each bg_color with alpha i % 255
FillDynamicBg(bytes, base, count) ==
    [i \in DOMAIN bytes |->
        LET rel == i - base
            px  == rel \div 4
        IN IF rel >= 0 /\ px < count
           THEN Color32Bytes(WithAlpha(BgColor, px % 255))[(rel % 4) + 1]
           ELSE bytes[i]]

\* reinit_dest_array
reinit_dest_array(tp, dsc, bytes) ==
    IF tp.operation_type = "OPERATION_FILL" THEN bytes
    ELSE IF tp.harness = "main"
         THEN (IF dsc.dynamic_bg_opa
               THEN FillDynamicBg(bytes, dsc.dest_buf.off, dsc.dest_w * dsc.dest_h)
               ELSE Memset(bytes, dsc.dest_buf.off, 0,
                           dsc.dest_w * dsc.dest_h * tp.data_type_size))
         ELSE (IF dsc.dynamic_bg_opa
               THEN FillDynamicBg(bytes, tp.dest_array.off, BenchStride * BenchHeight)
               ELSE Memset(bytes, tp.dest_array.off, 0, BenchStride * BenchHeight))

\* the function under test: blend_api_func(dsc) / lv_draw_sw_blend
BenchDut(tp, dsc, bytes) ==
    BlendFill(bytes, dsc.dest_buf.off, tp.data_type_size, dsc.dest_w, dsc.dest_h,
              dsc.dest_stride, dsc.opa)

\* the loop test with one more iteration
BenchLoopCond_Mutant(i, cycles) == i <= cycles

\* i < test_params->benchmark_cycles
BenchLoopCond(i, cycles) == i < cycles

\* the pixels of the blend area of a run, row by row
BenchDestArea(tp, dsc, bytes) ==
    [p \in (0 .. dsc.dest_h - 1) \X (0 .. dsc.dest_w - 1) |->
        PixelBytes(bytes, dsc.dest_buf.off, tp.data_type_size,
                   (p[1] * dsc.dest_stride) + p[2])]

BenchVisitedInit == [log |-> <<>>, costs |-> <<>>, first_start |-> NULL, results |-> <<>>]

BenchLoopInit(ccount) ==
    [run |-> 0, i |-> 0, total_cpu_count |-> 0, start_cpu_count |-> 0, ccount |-> ccount]

\* a benchmark test case about to run
BenchInit ==
    \E harness \in BenchHarnesses, name \in BenchTests,
       cycles \in 1 .. BenchMaxCycles, ccount \in BenchCcounts :
        /\ test_matrix = [harness |-> harness, name |-> name, benchmark_cycles |-> cycles]
        /\ test_case = NULL
        /\ loop = BenchLoopInit(ccount)
        /\ pc = "test_case"
        /\ visited = BenchVisitedInit
        /\ Unity = UnityInit
        /\ heap = HeapInit
        /\ mem = <<>>

\* TEST_CASE up to the first call of lv_fill_benchmark_run: memalign, the
\* NULL check, the corner-case pointer, test_params, the initial memset and
\* the descriptor of the first run
BenchTestCase ==
    /\ pc = "test_case"
    /\ \E ok \in BOOLEAN, g \in BenchUninit :
        LET name == test_matrix.name
            a    == Memalign(heap, mem, 16, BenchAllocSize(name), ok)
            tp   == BenchTestParams(test_matrix.harness, name,
                                    test_matrix.benchmark_cycles, a.ptr)
        IN IF a.ptr = NULL
           THEN /\ TestAbort
                /\ UNCHANGED <<test_matrix, test_case, loop, visited, heap, mem>>
           ELSE /\ heap' = a.heap
                /\ mem' = [a.mem EXCEPT ![a.ptr.blk] =
                              BenchInitialMemset(test_matrix.harness, name,
                                                 [i \in DOMAIN @ |-> g])]
                /\ test_matrix' = tp
                /\ test_case' = BenchDsc(tp, 1)
                /\ loop' = [loop EXCEPT !.run = 1]
                /\ visited' = [visited EXCEPT !.log = <<"memalign">>]
                /\ pc' = "run"
                /\ UNCHANGED Unity

\* lv_fill_benchmark_run: the first, untimed call
BenchWarmup ==
    /\ pc = "run"
    /\ \E cost \in BenchCosts :
        loop' = [loop EXCEPT !.i = 0, !.total_cpu_count = 0,
                             !.ccount = (@ + cost) % CcountMod]
    /\ mem' = [mem EXCEPT ![test_case.dest_buf.blk] = BenchDut(test_matrix, test_case, @)]
    /\ visited' = [visited EXCEPT !.log = <<"call">>, !.costs = <<>>,
                                  !.first_start = NULL]
    /\ pc' = "loop"
    /\ UNCHANGED <<test_matrix, test_case, Unity, heap>>

\* the loop test, and reinit_dest_array at the top of the loop body
BenchReinit ==
    /\ pc = "loop"
    /\ IF BenchLoopCond(loop.i, test_matrix.benchmark_cycles)
       THEN /\ mem' = [mem EXCEPT ![test_case.dest_buf.blk] =
                          reinit_dest_array(test_matrix, test_case, @)]
            /\ loop' = [loop EXCEPT !.ccount = (@ + 1) % CcountMod]
            /\ visited' = [visited EXCEPT !.log = Append(@, "reinit")]
            /\ pc' = "start"
       ELSE /\ pc' = "return"
            /\ UNCHANGED <<mem, loop, visited>>
    /\ UNCHANGED <<test_matrix, test_case, Unity, heap>>

\* start_cpu_count = xthal_get_ccount()
BenchStart ==
    /\ pc = "start"
    /\ loop' = [loop EXCEPT !.start_cpu_count = loop.ccount]
    /\ visited' = [visited EXCEPT
                      !.log = Append(@, "start"),
                      !.first_start = IF loop.i = 0
                                      THEN BenchDestArea(test_matrix, test_case,
                                                         mem[test_case.dest_buf.blk])
                                      ELSE @]
    /\ pc' = "dut"
    /\ UNCHANGED <<test_matrix, test_case, Unity, heap, mem>>

\* the timed call of the function under test
BenchTimedCall ==
    /\ pc = "dut"
    /\ \E cost \in BenchCosts :
        /\ loop' = [loop EXCEPT !.ccount = (@ + cost) % CcountMod]
        /\ visited' = [visited EXCEPT !.log = Append(@, "call"),
                                      !.costs = Append(@, cost)]
    /\ mem' = [mem EXCEPT ![test_case.dest_buf.blk] = BenchDut(test_matrix, test_case, @)]
    /\ pc' = "end"
    /\ UNCHANGED <<test_matrix, test_case, Unity, heap>>

\* uint64_t total_cpu_count wraps at TotalMod (2^64 on the target)
TotalMod == CcountMod * CcountMod

\* end_cpu_count - start_cpu_count as a difference of integers of unbounded
\* width
ElapsedCycles_Mutant(start_cpu_count, end_cpu_count) == end_cpu_count - start_cpu_count

\* (end_cpu_count - start_cpu_count) on unsigned int
ElapsedCycles(start_cpu_count, end_cpu_count) ==
    (end_cpu_count - start_cpu_count) % CcountMod

\* end_cpu_count = xthal_get_ccount(); total_cpu_count += end - start; i++
BenchEnd ==
    /\ pc = "end"
    /\ loop' = [loop EXCEPT
                   !.total_cpu_count =
                       (@ + ElapsedCycles(loop.start_cpu_count, loop.ccount)) % TotalMod,
                   !.i = @ + 1]
    /\ visited' = [visited EXCEPT !.log = Append(@, "end")]
    /\ pc' = "loop"
    /\ UNCHANGED <<test_matrix, test_case, Unity, heap, mem>>

\* the return of lv_fill_benchmark_run (after a printf in the benchmark test
\* app), the log line of lv_fill_benchmark_init and the descriptor of the
\* next run; the measured cycles are logged and not compared with anything
BenchReturn ==
    /\ pc = "return"
    /\ visited' = [visited EXCEPT
                      !.log = IF test_matrix.harness = "benchmark"
                              THEN @ \o <<"printf", "ESP_LOGI">>
                              ELSE Append(@, "ESP_LOGI"),
                      !.results = Append(@, [total  |-> loop.total_cpu_count,
                                             cycles |-> test_matrix.benchmark_cycles])]
    /\ IF loop.run < BenchRuns(test_matrix)
       THEN /\ loop' = [loop EXCEPT !.run = @ + 1, !.ccount = (@ + 1) % CcountMod]
            /\ test_case' = BenchDsc(test_matrix, loop.run + 1)
            /\ pc' = "run"
       ELSE /\ loop' = [loop EXCEPT !.ccount = (@ + 1) % CcountMod]
            /\ UNCHANGED test_case
            /\ pc' = "free"
    /\ UNCHANGED <<test_matrix, Unity, heap, mem>>

\* free(dest_array_align16) and the end of the test case
BenchFree ==
    /\ pc = "free"
    /\ LET f == Free(heap, mem, test_matrix.dest_array)
       IN /\ heap' = f.heap
          /\ mem' = f.mem
    /\ pc' = "done"
    /\ UNCHANGED <<test_matrix, test_case, loop, visited, Unity>>

BenchNext ==
    \/ BenchTestCase
    \/ BenchWarmup
    \/ BenchReinit
    \/ BenchStart
    \/ BenchTimedCall
    \/ BenchEnd
    \/ BenchReturn
    \/ BenchFree

SpecBench == BenchInit /\ [][BenchNext]_vars

\* =========================================================================
\* main/lv_fill_common.c, benchmark/main/lv_fill_common.c :
\* init_blend_params, get_blend_params, free_blend_params
\* =========================================================================
\* test_matrix is the test app the module is built for, test_case the module's
\* static pointers s_blend_params and s_area, loop the structures stored in
\* the blocks malloc returned, visited the last call and what it returned.

\* number of calls of the three functions that are followed
MaxCalls == 4

ParamsHarnesses == {"main", "benchmark"}

\* number of malloc calls of one init_blend_params
ParamsMallocs(harness) == IF harness = "main" THEN 6 ELSE 4

\* outcomes of the malloc calls of one init_blend_params: all succeed, one of
\* them fails, all fail
MallocOutcomes(n) ==
    {oks \in [1 .. n -> BOOLEAN] :
        \/ Cardinality({i \in 1 .. n : ~oks[i]}) <= 1
        \/ \A i \in 1 .. n : ~oks[i]}

\* what the caller's two pointers hold before get_blend_params has written
\* them
Unwritten == [blk |-> Garbage, off |-> Garbage]

UnwrittenOut == [blend_params_ret |-> Unwritten, area_ret |-> Unwritten]

\* malloc(sizeof(T)): the structure stored in the block is followed in loop,
\* its bytes are not
Malloc(h, m, ok) == Memalign(h, m, 1, 0, ok)

\* the malloc calls of init_blend_params, in the order of the code
RECURSIVE MallocAll(_, _, _)
MallocAll(h, m, oks) ==
    IF oks = <<>>
    THEN [heap |-> h, mem |-> m, ptrs |-> <<>>]
    ELSE LET a == Malloc(h, m, Head(oks))
             r == MallocAll(a.heap, a.mem, Tail(oks))
         IN [heap |-> r.heap, mem |-> r.mem, ptrs |-> <<a.ptr>> \o r.ptrs]

\* the condition LV_FILL_CHECK lets get_blend_params pass, with the test
\* left out
GetCheck_Mutant(s) == TRUE

\* the condition LV_FILL_CHECK lets get_blend_params pass
GetCheck(s) == s.s_area # NULL \/ s.s_blend_params # NULL

\* the condition LV_FILL_CHECK lets init_blend_params pass, with the test
\* left out
InitCheck_Mutant(s) == TRUE

\* the condition LV_FILL_CHECK lets init_blend_params pass
InitCheck(s) == s.s_area = NULL \/ s.s_blend_params = NULL

\* lv_draw_sw_blend_dsc_t blend_dsc of init_blend_params
ParamsBlendDsc(test_area) ==
    [blend_area |-> test_area,
     src_buf    |-> NULL,
     opa        |-> LV_OPA_MAX,
     color      |-> TestColor,
     mask_buf   |-> NULL,
     mask_area  |-> NULL]

\* the structures init_blend_params of the main test app stores in its six
\* blocks
ParamsObjectsMain(p) ==
    LET test_area         == p[1]
        draw_buf_ansi     == p[2]
        draw_buf_asm      == p[3]
        target_layer_ansi == p[4]
        target_layer_asm  == p[5]
        blend_params      == p[6]
    IN (test_area.blk :> [type |-> "test_area_t"])
       @@ (draw_buf_ansi.blk :> [type |-> "lv_draw_buf_t", data |-> NULL])
       @@ (draw_buf_asm.blk :> [type |-> "lv_draw_buf_t", data |-> NULL])
       @@ (target_layer_ansi.blk :> [type |-> "lv_layer_t", draw_buf |-> draw_buf_ansi])
       @@ (target_layer_asm.blk :> [type |-> "lv_layer_t", draw_buf |-> draw_buf_asm])
       @@ (blend_params.blk :>
              [type           |-> "blend_params_t",
               blend_dsc      |-> ParamsBlendDsc(test_area),
               draw_unit_ansi |-> [target_layer |-> target_layer_ansi,
                                   clip_area    |-> test_area],
               draw_unit_asm  |-> [target_layer |-> target_layer_asm,
                                   clip_area    |-> test_area],
               api_function   |-> "LVGL_API_NOT_SET"])

\* the structures init_blend_params of the benchmark test app stores in its
\* four blocks
ParamsObjectsBenchmark(p) ==
    LET p_test_area    == p[1]
        p_draw_buf     == p[2]
        p_target_layer == p[3]
        p_blend_params == p[4]
    IN (p_test_area.blk :> [type |-> "test_area_t"])
       @@ (p_draw_buf.blk :> [type |-> "lv_draw_buf_t", data |-> NULL])
       @@ (p_target_layer.blk :> [type |-> "lv_layer_t", draw_buf |-> p_draw_buf])
       @@ (p_blend_params.blk :>
              [type      |-> "blend_params_t",
               blend_dsc |-> ParamsBlendDsc(p_test_area),
               draw_unit |-> [target_layer |-> p_target_layer,
                              clip_area    |-> p_test_area]])

\* free(p) on the heap, the bytes and the structures
FreeObject(st, p) ==
    LET f == Free(st.heap, st.mem, p)
    IN IF p = NULL THEN st
       ELSE [heap |-> f.heap, mem |-> f.mem,
             objs |-> [b \in DOMAIN st.objs \ {p.blk} |-> st.objs[b]]]

\* the block of one target layer of the main test app, with the free of the
\* target layer left out
FreeLayerMain_Mutant(st, target_layer) ==
    IF target_layer # NULL
    THEN (IF st.objs[target_layer.blk].draw_buf # NULL
          THEN FreeObject(st, st.objs[target_layer.blk].draw_buf)
          ELSE st)
    ELSE st

\* main test app: if (target_layer != NULL) { if (target_layer->draw_buf !=
\* NULL) free(target_layer->draw_buf); free(target_layer); }
FreeLayerMain(st, target_layer) ==
    IF target_layer # NULL
    THEN LET draw_buf == st.objs[target_layer.blk].draw_buf
             st1      == IF draw_buf # NULL THEN FreeObject(st, draw_buf) ELSE st
         IN FreeObject(st1, target_layer)
    ELSE st

\* benchmark test app: if (target_layer != NULL) { free(target_layer->
\* draw_buf); free(target_layer); }
FreeLayerBenchmark(st, target_layer) ==
    IF target_layer # NULL
    THEN FreeObject(FreeObject(st, st.objs[target_layer.blk].draw_buf), target_layer)
    ELSE st

\* the frees of free_blend_params of the main test app
FreeParamsMain(st, s) ==
    LET st1 == IF s.s_area # NULL THEN FreeObject(st, s.s_area) ELSE st
    IN IF s.s_blend_params # NULL
       THEN LET bp  == st.objs[s.s_blend_params.blk]
                st2 == FreeLayerMain(st1, bp.draw_unit_ansi.target_layer)
                st3 == FreeLayerMain(st2, bp.draw_unit_asm.target_layer)
            IN FreeObject(st3, s.s_blend_params)
       ELSE st1

\* the frees of free_blend_params of the benchmark test app
FreeParamsBenchmark(st, s) ==
    LET st1 == FreeObject(st, s.s_area)
    IN IF s.s_blend_params # NULL
       THEN LET bp  == st.objs[s.s_blend_params.blk]
                st2 == FreeLayerBenchmark(st1, bp.draw_unit.target_layer)
            IN FreeObject(st2, s.s_blend_params)
       ELSE st1

\* the module's state as a call finds it
ParamsSnapshot ==
    [statics |-> test_case, objs |-> loop, heap |-> heap, mem |-> mem,
     initialised |-> visited.initialised, out |-> visited.out]

\* the module after it is loaded: static blend_params_t *s_blend_params =
\* NULL; static test_area_t *s_area = NULL;
ParamsInit ==
    /\ test_matrix \in {[harness |-> h] : h \in ParamsHarnesses}
    /\ test_case = [s_blend_params |-> NULL, s_area |-> NULL]
    /\ loop = <<>>
    /\ pc = "idle"
    /\ visited = [calls       |-> 0,
                  fn          |-> "none",
                  ret         |-> "none",
                  oks         |-> <<>>,
                  blocks      |-> {},
                  out         |-> UnwrittenOut,
                  before      |-> [statics |-> [s_blend_params |-> NULL, s_area |-> NULL],
                                   objs |-> <<>>, heap |-> HeapInit, mem |-> <<>>,
                                   initialised |-> FALSE, out |-> UnwrittenOut],
                  initialised |-> FALSE,
                  init_blocks |-> {}]
    /\ Unity = UnityInit
    /\ heap = HeapInit
    /\ mem = <<>>

init_blend_params ==
    /\ pc = "idle"
    /\ visited.calls < MaxCalls
    /\ IF ~InitCheck(test_case)
       THEN \* LV_FILL_CHECK: return ESP_ERR_INVALID_STATE
            /\ visited' = [visited EXCEPT !.calls = @ + 1, !.fn = "init_blend_params",
                                          !.ret = "ESP_ERR_INVALID_STATE",
                                          !.oks = <<>>, !.blocks = {},
                                          !.before = ParamsSnapshot]
            /\ UNCHANGED <<test_case, loop, heap, mem>>
       ELSE \E oks \in MallocOutcomes(ParamsMallocs(test_matrix.harness)) :
              LET a      == MallocAll(heap, mem, oks)
                  n      == Len(oks)
                  blocks == {a.ptrs[i].blk : i \in {j \in 1 .. n : a.ptrs[j] # NULL}}
              IN /\ heap' = a.heap
                 /\ mem' = a.mem
                 /\ IF \E i \in 1 .. n : a.ptrs[i] = NULL
                    THEN \* return ESP_ERR_NO_MEM
                         /\ visited' = [visited EXCEPT
                                          !.calls = @ + 1, !.fn = "init_blend_params",
                                          !.ret = "ESP_ERR_NO_MEM",
                                          !.oks = oks, !.blocks = blocks,
                                          !.before = ParamsSnapshot]
                         /\ UNCHANGED <<test_case, loop>>
                    ELSE /\ loop' = IF test_matrix.harness = "main"
                                    THEN ParamsObjectsMain(a.ptrs) @@ loop
                                    ELSE ParamsObjectsBenchmark(a.ptrs) @@ loop
                         /\ test_case' = [s_blend_params |-> a.ptrs[n], s_area |-> a.ptrs[1]]
                         /\ visited' = [visited EXCEPT
                                          !.calls = @ + 1, !.fn = "init_blend_params",
                                          !.ret = "ESP_OK",
                                          !.oks = oks, !.blocks = blocks,
                                          !.before = ParamsSnapshot,
                                          !.initialised = TRUE,
                                          !.init_blocks = blocks]
    /\ UNCHANGED <<test_matrix, pc, Unity>>

\* get_blend_params(&s_blend_params, &s_area) of a test case: visited.out is
\* the caller's two pointers
get_blend_params ==
    /\ pc = "idle"
    /\ visited.calls < MaxCalls
    /\ IF ~GetCheck(test_case)
       THEN \* LV_FILL_CHECK: return ESP_ERR_INVALID_STATE
            visited' = [visited EXCEPT !.calls = @ + 1, !.fn = "get_blend_params",
                                       !.ret = "ESP_ERR_INVALID_STATE",
                                       !.before = ParamsSnapshot]
       ELSE visited' = [visited EXCEPT !.calls = @ + 1, !.fn = "get_blend_params",
                                       !.ret = "ESP_OK",
                                       !.out = [blend_params_ret |-> test_case.s_blend_params,
                                                area_ret |-> test_case.s_area],
                                       !.before = ParamsSnapshot]
    /\ UNCHANGED <<test_matrix, test_case, loop, pc, Unity, heap, mem>>

free_blend_params ==
    /\ pc = "idle"
    /\ visited.calls < MaxCalls
    /\ LET st == [heap |-> heap, mem |-> mem, objs |-> loop]
           f  == IF test_matrix.harness = "main"
                 THEN FreeParamsMain(st, test_case)
                 ELSE FreeParamsBenchmark(st, test_case)
       IN /\ heap' = f.heap
          /\ mem' = f.mem
          /\ loop' = f.objs
    /\ test_case' = [s_blend_params |-> NULL, s_area |-> NULL]
    /\ visited' = [visited EXCEPT !.calls = @ + 1, !.fn = "free_blend_params",
                                  !.ret = "ESP_OK",
                                  !.before = ParamsSnapshot,
                                  !.initialised = FALSE]
    /\ UNCHANGED <<test_matrix, pc, Unity>>

ParamsNext ==
    \/ init_blend_params
    \/ get_blend_params
    \/ free_blend_params

SpecBlendParams == ParamsInit /\ [][ParamsNext]_vars

\* =========================================================================
\* fill_test_bufs of the fill test and of the image test over every
\* operation type and pixel size
\* =========================================================================
\* sizeof(uint16_t), sizeof(uint32_t)
PixelSizes == {2, 4}

\* blend_operation_t
FillOperations == {"OPERATION_FILL", "OPERATION_FILL_WITH_OPA"}

\* a test case of the fill test with the operation type and the pixel size
\* given
FillBufCase(op, size) ==
    [name |-> "fill_test_bufs",
     color_format |-> IF size = 4 THEN "ARGB8888" ELSE "RGB565",
     data_type_size |-> size, operation_type |-> op, buf |-> NullBufs]

FillBufCases ==
    {FillUpdateTestCase(FillBufCase(op, size), w, h, w, u, LV_OPA_10, LV_OPA_10, 0) :
        op \in FillOperations, size \in PixelSizes,
        w \in 1 .. CaseMaxW, h \in 1 .. CaseMaxH, u \in CaseUnaligns}

\* the test cases of the image test with the source and destination pixel
\* sizes given
ImageBufCases ==
    {[tc EXCEPT !.src_data_type_size = s, !.dest_data_type_size = d] :
        tc \in {c \in ImageCases :
                   /\ c.dest_w <= c.src_stride /\ c.src_stride <= 2 * c.dest_w
                   /\ c.dest_w <= c.dest_stride /\ c.dest_stride <= 2 * c.dest_w},
        s \in PixelSizes, d \in PixelSizes}

\* the highest byte offset fill_test_bufs of the image test writes in a
\* destination block, from the allocation start
ImageDestLastByte(tc) ==
    LET memset_last == tc.dest_unalign_byte + ImageDestMemsetLen(tc) - 1
        loop_last   == tc.dest_unalign_byte + ((tc.active_dest_buf_len + CANARY_BYTES) * 2) - 1
    IN IF tc.operation_type = "OPERATION_FILL" /\ loop_last > memset_last
       THEN loop_last ELSE memset_last

\* the highest byte offset fill_test_bufs of the image test writes in the
\* source block
ImageSrcLastByte(tc) ==
    LET memset_last == tc.src_unalign_byte + (tc.src_buf_len * tc.src_data_type_size) - 1
        loop_last   == tc.src_unalign_byte + (tc.src_buf_len * 2) - 1
    IN IF tc.operation_type = "OPERATION_FILL" /\ loop_last > memset_last
       THEN loop_last ELSE memset_last

\* lv_fill_functionality entered with one of these test cases
BufsInit ==
    /\ \/ test_matrix = [app |-> "fill"] /\ test_case \in FillBufCases
       \/ test_matrix = [app |-> "image"] /\ test_case \in ImageBufCases
    /\ loop = <<>>
    /\ pc = "fill_test_bufs"
    /\ visited = [log |-> <<>>, combos |-> 1, stray |-> NoStray]
    /\ Unity = UnityInit
    /\ heap = HeapInit
    /\ mem = <<>>

BufsNext ==
    \/ FillTestBufs
    \/ ImageTestBufs

SpecBufs == BufsInit /\ [][BufsNext]_vars

\* =========================================================================
\* Claims
\* =========================================================================

\* the (dest_w, dest_h, unalign_byte) triples a matrix declares
FillDeclaredGeo(m) ==
    {<<w, h, u>> \in (m.min_w .. m.max_w) \X (m.min_h .. m.max_h)
                     \X (m.min_unalign_byte .. m.max_unalign_byte) :
        (u - m.min_unalign_byte) % m.unalign_step = 0}

\* C1: when the generator returns, lv_fill_functionality has been invoked at
\* least once for every declared (dest_w, dest_h, unalign_byte) triple, for
\* each of the three fill test matrices.
C1_Exhaustive ==
    pc = "done" => FillDeclaredGeo(test_matrix) \subseteq visited.geo

\* C2: in the fill-with-opacity matrix the bg_opa values and the fg_opa values
\* passed to lv_fill_functionality each include both 0 and 255: the fg_opa
\* values once the fg_opa loop has run to its exit, the bg_opa values once the
\* generator returns.
C2_OpaBoundaries ==
    /\ (test_case.operation_type = "OPERATION_FILL_WITH_OPA"
        /\ pc = "fg" /\ ~FillOpaLoopCond(loop.fg_opa))
           => {0, 255} \subseteq visited.fg
    /\ (test_case.operation_type = "OPERATION_FILL_WITH_OPA" /\ pc = "done")
           => ({0, 255} \subseteq visited.bg /\ {0, 255} \subseteq visited.fg)

\* the opacity values the image matrix visits over 0..255 with fine step 1
ImageOpaValues0To255 ==
    <<0, 1, 2, 3, 4, 5, 6, 26, 46, 66, 86, 106, 126, 146, 166, 186, 206, 226,
      246, 247, 248, 249, 250, 251, 252, 253, 254, 255>>

\* the step the claim states for an opacity value
ImageStatedStep(opa, range) ==
    IF opa <= range.min + 5 \/ opa > range.max - 10 THEN range.step ELSE 20

MainTuples(m) ==
    {t \in (m.min_w .. m.max_w) \X (m.min_h .. m.max_h) \X (m.min_w .. 2 * m.max_w)
            \X (m.min_unalign_byte .. m.max_unalign_byte) :
        /\ t[3] >= t[1] /\ t[3] <= 2 * t[1] /\ (t[3] - t[1]) % m.stride_step = 0
        /\ (t[4] - m.min_unalign_byte) % m.unalign_step = 0}

\* |strides(w)| and |unaligns|
MainNumStrides(m, w) == (w \div m.stride_step) + 1
MainNumUnaligns(m) == ((m.max_unalign_byte - m.min_unalign_byte) \div m.unalign_step) + 1

\* sum over w in lo..max_w and h in min_h..max_h of |strides(w)| * |unaligns|
RECURSIVE MainTupleCount(_, _)
MainTupleCount(m, lo) ==
    IF lo > m.max_w THEN 0
    ELSE (m.max_h - m.min_h + 1) * MainNumStrides(m, lo) * MainNumUnaligns(m)
            + MainTupleCount(m, lo + 1)

\* C4: when the generator of the main test app returns, it has run one
\* functionality check for every declared tuple (w, h, stride, unalign_byte)
\* and for no tuple twice, and test_combinations_count is its initial value
\* plus the number of tuples, the sum over w and h of |strides(w)| * |unaligns|;
\* that sum is 31,824 for the declared matrices.
C4_CountsCombinations ==
    pc = "done" =>
        /\ visited.tuples = MainTuples(test_matrix)
        /\ visited.calls = Cardinality(MainTuples(test_matrix))
        /\ test_matrix.test_combinations_count
              = visited.initial_count + MainTupleCount(test_matrix, test_matrix.min_w)
        /\ MainTupleCount(test_matrix, test_matrix.min_w) = Cardinality(MainTuples(test_matrix))
        /\ \A f \in {"ARGB8888", "RGB565"} : MainTupleCount(MainDeclared(f), 8) = 31824

\* C4 witness: the generator has returned from a matrix with several widths,
\* heights, strides and unalignments, the counter having started above 0
C4_Witness ==
    /\ pc = "done" /\ visited.initial_count > 0
    /\ \E t1, t2 \in visited.tuples :
          t1[1] # t2[1] /\ t1[2] # t2[2] /\ t1[3] # t2[3] /\ t1[4] # t2[4]

LastLog == IF visited.log = <<>> THEN "none" ELSE visited.log[Len(visited.log)]

\* the order of the steps of a combination
StepOrder == <<"allocate", "initialise", "asm", "ansi", "compare", "release">>

\* the destination buffers of the running combination as the test set them
\* up: pixel size, misalignment, geometry, the two blocks and the two working
\* pointers
Dest ==
    CASE test_matrix.app = "fill" ->
            [size |-> test_case.data_type_size, unalign |-> test_case.unalign_byte,
             w |-> test_case.dest_w, h |-> test_case.dest_h, stride |-> test_case.dest_stride,
             asm |-> test_case.buf.p_asm_alloc, ansi |-> test_case.buf.p_ansi_alloc,
             p_asm |-> test_case.buf.p_asm, p_ansi |-> test_case.buf.p_ansi,
             others |-> {}]
      [] test_matrix.app = "main" ->
            [size |-> MainPixelSize(test_case.color_format),
             unalign |-> test_case.unalign_byte,
             w |-> test_case.w, h |-> test_case.h, stride |-> test_case.stride,
             asm |-> test_case.mem_asm, ansi |-> test_case.mem_ansi,
             p_asm |-> test_case.dest_buff_asm, p_ansi |-> test_case.dest_buff_ansi,
             others |-> {}]
      [] test_matrix.app = "image" ->
            [size |-> test_case.dest_data_type_size, unalign |-> test_case.dest_unalign_byte,
             w |-> test_case.dest_w, h |-> test_case.dest_h, stride |-> test_case.dest_stride,
             asm |-> test_case.buf.p_dest_asm_alloc, ansi |-> test_case.buf.p_dest_ansi_alloc,
             p_asm |-> test_case.buf.p_dest_asm, p_ansi |-> test_case.buf.p_dest_ansi,
             others |-> {test_case.buf.p_src_alloc}]

\* byte offsets, from the start of the allocation, of the leading guard, the
\* active region and the trailing guard
LeadingGuard  == Dest.unalign .. Dest.unalign + (CANARY_BYTES * Dest.size) - 1
ActiveRegion  == Dest.unalign + (CANARY_BYTES * Dest.size)
                   .. Dest.unalign + ((CANARY_BYTES + (Dest.h * Dest.stride)) * Dest.size) - 1
TrailingGuard == Dest.unalign + ((CANARY_BYTES + (Dest.h * Dest.stride)) * Dest.size)
                   .. Dest.unalign + (((2 * CANARY_BYTES) + (Dest.h * Dest.stride)) * Dest.size) - 1

\* the active bytes that belong to padding pixels (columns dest_w .. stride-1)
PaddingBytes ==
    {o \in ActiveRegion :
        (((o - Dest.unalign) \div Dest.size) - CANARY_BYTES) % Dest.stride >= Dest.w}

GuardsZero(blk) == \A o \in LeadingGuard \cup TrailingGuard : mem[blk][o] = 0

\* all guard pixels of both buffers zero and the active regions pairwise equal
Clean ==
    /\ GuardsZero(Dest.asm.blk)
    /\ GuardsZero(Dest.ansi.blk)
    /\ \A o \in ActiveRegion : mem[Dest.asm.blk][o] = mem[Dest.ansi.blk][o]

\* C5: after both blits the evaluation passes only if every guard pixel before
\* and after the active region is zero in the ASM and in the ANSI buffer and
\* the dest_h * dest_stride active pixels of the two buffers are equal; a
\* non-zero guard byte or a differing active byte fails the test.  In the two
\* fill tests these checks are the whole evaluation, and the evaluation
\* functions of main/test_functionality_eval.c decide the same way.
C5_EvalPassesOnlyIfClean ==
    LastLog = "compare" =>
        /\ pc \in {"free", "aborted"}
        /\ pc = "free" => Clean
        /\ ~Clean => (pc = "aborted" /\ Unity.CurrentTestFailed)
        /\ test_matrix.app \in {"fill", "main"} => (pc = "free" <=> Clean)
        /\ test_matrix.app = "main" =>
              (test_eval_data(Dest.size, [p_ansi |-> Dest.p_ansi, p_asm |-> Dest.p_asm],
                              Dest.h * Dest.stride,
                              (Dest.h * Dest.stride) + (CANARY_BYTES * 2), mem) <=> Clean)

\* an evaluation has failed on a single non-zero byte in the trailing guard
\* of the ASM buffer, everything else being zero and equal
C5_Witness ==
    /\ pc = "aborted" /\ LastLog = "compare"
    /\ GuardsZero(Dest.ansi.blk)
    /\ \A o \in LeadingGuard : mem[Dest.asm.blk][o] = 0
    /\ \A o \in ActiveRegion : mem[Dest.asm.blk][o] = mem[Dest.ansi.blk][o]
    /\ Cardinality({o \in TrailingGuard : mem[Dest.asm.blk][o] # 0}) = 1

\* C6: before the first blit of a fill combination each destination buffer is
\* a block of (dest_h*dest_stride + 2*CANARY_BYTES)*pixelSize + unalign_byte
\* bytes at 16-byte alignment; the leading guard starts at byte unalign_byte,
\* the active region (the working pointer) at unalign_byte +
\* CANARY_BYTES*pixelSize, the trailing guard right after the active region;
\* all three lie inside the block and both guards of both buffers are zero.
C6_BufferLayout ==
    (pc = "blend_asm" /\ test_matrix.app \in {"fill", "main"}) =>
        \A b \in {"asm", "ansi"} :
            LET alloc == IF b = "asm" THEN Dest.asm ELSE Dest.ansi
                work  == IF b = "asm" THEN Dest.p_asm ELSE Dest.p_ansi
                block == heap.live[alloc.blk]
            IN /\ alloc.blk \in DOMAIN heap.live /\ alloc.off = 0
               /\ block.size = (((Dest.h * Dest.stride) + (2 * CANARY_BYTES)) * Dest.size)
                                 + Dest.unalign
               /\ block.align = 16
               /\ work = [blk |-> alloc.blk,
                          off |-> Dest.unalign + (CANARY_BYTES * Dest.size)]
               /\ \A o \in LeadingGuard \cup ActiveRegion \cup TrailingGuard :
                     0 <= o /\ o < block.size
               /\ test_matrix.app = "fill" => FillInitLastByte(test_case) < block.size
               /\ GuardsZero(alloc.blk)
               /\ \A o \in ActiveRegion : mem[alloc.blk][o] # Garbage

\* a misaligned buffer (unalign_byte = 3) with 4-byte pixels is set up
C6_Witness ==
    /\ pc = "blend_asm" /\ test_matrix.app \in {"fill", "main"}
    /\ Dest.unalign = 3 /\ Dest.size = 4
    /\ heap.live[Dest.asm.blk].size = (((Dest.h * Dest.stride) + 8) * 4) + 3

\* C7: the steps of a combination come in the order allocate, initialise, ASM
\* blit, ANSI blit, compare, release; when a combination starts to allocate,
\* no buffer of an earlier combination is still allocated; every blit and
\* comparison works on buffers that are allocated at that moment.
C7_StrictOrder ==
    /\ Len(visited.log) <= Len(StepOrder)
    /\ \A i \in 1 .. Len(visited.log) : visited.log[i] = StepOrder[i]
    /\ pc \in {"fill_test_bufs", "setup"} => (visited.log = <<>> /\ DOMAIN heap.live = {})
    /\ pc \in {"blend_asm", "blend_ansi", "eval"} =>
          /\ {Dest.p_asm.blk, Dest.p_ansi.blk} \subseteq DOMAIN heap.live
          /\ Dest.p_asm.blk = Dest.asm.blk /\ Dest.p_ansi.blk = Dest.ansi.blk
          /\ \A p \in Dest.others : p.blk \in DOMAIN heap.live
    /\ LastLog = "compare" => {Dest.p_asm.blk, Dest.p_ansi.blk} \subseteq DOMAIN heap.live
    /\ pc = "returned" => visited.log = StepOrder

\* a second combination has allocated its buffers after the first one passed
\* and released its own
C7_Witness ==
    /\ visited.combos = 2 /\ pc = "blend_asm"
    /\ Cardinality(DOMAIN heap.live) >= 2
    /\ \A b \in DOMAIN heap.live : b > 2

\* C8: when a combination has ended, by returning or by a failed assertion
\* that aborts the test case, every buffer allocated for it has been freed
\* exactly once and none is left allocated.
C8_FreedOnEveryPath ==
    pc \in {"returned", "aborted"} =>
        /\ DOMAIN heap.live = {}
        /\ \A b \in 1 .. Len(heap.frees) : heap.frees[b] = 1

\* the ASM and ANSI destinations differ in a padding pixel and nowhere else,
\* the guards are zero, the declared row width equals the source rows
PaddingOnlyDifference ==
    /\ GuardsZero(Dest.asm.blk)
    /\ GuardsZero(Dest.ansi.blk)
    /\ \A o \in ActiveRegion \ PaddingBytes : mem[Dest.asm.blk][o] = mem[Dest.ansi.blk][o]
    /\ \E o \in PaddingBytes : mem[Dest.asm.blk][o] # mem[Dest.ansi.blk][o]
    /\ ImageRowsEqualSrc(test_case, test_case.buf, mem)

\* C10 as stated: in the image test with row padding a difference between the
\* ASM and the ANSI destination that is confined to padding pixels does not
\* fail the check.
C10_PaddingNotCompared ==
    (test_matrix.app = "image" /\ LastLog = "compare" /\ PaddingOnlyDifference)
        => (pc = "free" /\ ~Unity.CurrentTestFailed)

\* C10 amended: the ASM-against-ANSI comparison of the image test covers all
\* dest_h * dest_stride pixels of the active region, padding included, so a
\* difference in a padding pixel fails the check; only the comparison of the
\* destination with the source is limited to the declared row width, and a
\* passing destination keeps padding that differs from the source's.
C10_PaddingCompared ==
    (test_matrix.app = "image" /\ LastLog = "compare") =>
        /\ (\E o \in PaddingBytes : mem[Dest.asm.blk][o] # mem[Dest.ansi.blk][o])
              => (pc = "aborted" /\ Unity.CurrentTestFailed)
        /\ (pc = "free" /\ test_case.dest_stride > test_case.dest_w
                        /\ test_case.src_stride > test_case.dest_w)
              => \E row \in 0 .. test_case.dest_h - 1 :
                    ~EqualArray(mem[Dest.asm.blk],
                                Dest.p_asm.off + ((CANARY_BYTES + (row * test_case.dest_stride)
                                                    + test_case.dest_w) * 2),
                                mem[test_case.buf.p_src.blk],
                                test_case.buf.p_src.off
                                  + (((row * test_case.src_stride) + test_case.dest_w) * 2),
                                2, 1)

\* an image check has failed on a difference confined to a padding pixel
C10_Witness ==
    /\ test_matrix.app = "image" /\ LastLog = "compare" /\ pc = "aborted"
    /\ test_case.dest_stride > test_case.dest_w
    /\ PaddingOnlyDifference

\* ------------------------------------------------------------------ failures
\* the opacities the two loops of the running fill matrix admit
FillLoopOpas(min_opa) == {o \in min_opa .. 255 : FillOpaLoopCond(o)}

\* C9 as stated: a failure at one combination does not abort the run; when the
\* run of a matrix in which a combination failed has ended, every combination
\* of the matrix has been run.
C9_RemainingCombinationsRun ==
    (Unity.CurrentTestFailed /\ pc \in {"done", "aborted"}) =>
        /\ FillDeclaredGeo(test_matrix) \subseteq visited.geo
        /\ FillLoopOpas(test_matrix.min_bg_opa) \subseteq visited.bg
        /\ FillLoopOpas(test_matrix.min_fg_opa) \subseteq visited.fg

\* C9 amended: a failed check at one combination is recorded and aborts the
\* test case: the generator takes no further step, so no remaining
\* combination of that matrix is allocated, blitted or evaluated.
C9_FailureAbortsTestCase ==
    Unity.CurrentTestFailed => (pc = "aborted" /\ ~ENABLED FillMatrixNext)

\* a combination has failed while opacities of the matrix were still to run
C9_Witness ==
    /\ Unity.CurrentTestFailed /\ pc = "aborted"
    /\ visited.fg # {}
    /\ ~(FillLoopOpas(test_matrix.min_fg_opa) \subseteq visited.fg)

\* ------------------------------------------------------------------ dispatch
\* the destination and the descriptor are as they were before the dispatch
DispatchWroteNothing ==
    /\ mem = visited.before.mem
    /\ test_case = visited.before.dsc

\* the dispatch function returned LV_RESULT_INVALID, called no routine and
\* wrote nothing
DispatchFailedClosed ==
    /\ visited.ret = "LV_RESULT_INVALID"
    /\ visited.called = "none"
    /\ visited.asm_dsc = NULL
    /\ DispatchWroteNothing

\* C11: whenever LV_BLEND_USE_ASM is false, both dispatch functions return
\* LV_RESULT_INVALID without calling an assembly routine and without writing
\* the destination buffer or the descriptor, on every target; on a target
\* that is neither ESP32 nor ESP32-S3 they do so when the flag is true too.
C11_FailsClosed ==
    (pc = "returned" /\ (~test_matrix.LV_BLEND_USE_ASM
                         \/ test_matrix.target \notin {"ESP32", "ESP32S3"}))
        => DispatchFailedClosed

C11_Witness ==
    /\ pc = "returned"
    /\ ~test_matrix.LV_BLEND_USE_ASM
    /\ test_matrix.target = "ESP32S3"
    /\ test_case.color_format = "RGB565"
    /\ test_case.dest_w = DispMaxW
    /\ visited.ret = "LV_RESULT_INVALID"

\* the routine the header declares for a (format, platform) pair
RegisteredRoutine(cf, target) ==
    IF cf = "ARGB8888"
    THEN (IF target = "ESP32S3" THEN "lv_color_blend_to_argb8888_esp32_aes3"
          ELSE "lv_color_blend_to_argb8888_esp32_ae32")
    ELSE (IF target = "ESP32S3" THEN "lv_color_blend_to_rgb565_esp32_aes3"
          ELSE "lv_color_blend_to_rgb565_esp32_ae32")

\* C12: for each of the four (format, platform) pairs of solid fill, the
\* routine invoked when the flag is set is the one registered for that same
\* format and that same platform, never a routine of another format or
\* platform.
C12_ExactRoutine ==
    (pc = "returned" /\ test_matrix.LV_BLEND_USE_ASM
                     /\ test_matrix.target \in {"ESP32", "ESP32S3"})
        => visited.called = RegisteredRoutine(test_case.color_format, test_matrix.target)

\* ------------------------------------------------------------------ mixing
ColourChannels == {"red", "green", "blue"}

\* foreground, background and opacity of the call that was made
MixFg == IF visited.fn = "lv_color_mix32" THEN test_case.fg ELSE test_case.c1
MixBg == IF visited.fn = "lv_color_mix32" THEN test_case.bg ELSE test_case.c2
MixOpa == IF visited.fn = "lv_color_mix32" THEN test_case.fg.alpha ELSE test_case.mix

\* round-to-nearest blend of one channel
RoundedBlend(fg, bg, opa) == ((fg * opa) + (bg * (255 - opa)) + 127) \div 255

\* C13: for every foreground channel, background channel and opacity in
\* 0..255, the channel lv_color_mix32 and lv_color_mix return equals
\* (fg*opa + bg*(255-opa) + 127) / 255 in integer division.
C13_RoundToNearest ==
    pc = "mixed" =>
        \A ch \in ColourChannels :
            visited.ret[ch] = RoundedBlend(MixFg[ch], MixBg[ch], MixOpa)

\* C14: opacity 0 returns the background unchanged in every channel and
\* opacity 255 returns the foreground colour in every colour channel, for
\* lv_color_mix and for lv_color_mix32.
C14_Endpoints ==
    pc = "mixed" =>
        /\ MixOpa = 0 =>
              /\ \A ch \in ColourChannels : visited.ret[ch] = MixBg[ch]
              /\ visited.fn = "lv_color_mix32" => visited.ret = test_case.bg
        /\ MixOpa = 255 =>
              \A ch \in ColourChannels : visited.ret[ch] = MixFg[ch]

C14_Witness ==
    /\ pc = "mixed"
    /\ visited.fn = "lv_color_mix"
    /\ test_case.mix = 255
    /\ test_case.c1.blue = 255
    /\ test_case.c2.blue = 86
    /\ visited.ret.blue = 255

\* C15: the alpha of the result of lv_color_mix32(fg, bg) equals bg.alpha for
\* every fg and bg; fg.alpha never appears in the result's alpha.
C15_AlphaIsBgAlpha ==
    (pc = "mixed" /\ visited.fn = "lv_color_mix32")
        => visited.ret.alpha = test_case.bg.alpha

\* the call with foreground and background swapped and the opacity mirrored
SwappedRet ==
    IF visited.fn = "lv_color_mix32"
    THEN lv_color_mix32(WithAlpha(test_case.bg, 255 - test_case.fg.alpha),
                        WithAlpha(test_case.fg, test_case.bg.alpha))
    ELSE lv_color_mix(test_case.c2, test_case.c1, 255 - test_case.mix)

\* C16: blending C over B with opacity O yields the same red, green and blue
\* as blending B over C with opacity 255 - O, for lv_color_mix and for
\* lv_color_mix32.
C16_Symmetric ==
    pc = "mixed" =>
        \A ch \in ColourChannels : visited.ret[ch] = SwappedRet[ch]

C16_Witness ==
    /\ pc = "mixed"
    /\ visited.fn = "lv_color_mix32"
    /\ test_case.fg.alpha = 127
    /\ test_case.fg.red = 18
    /\ test_case.bg.red = 171
    /\ visited.ret.red # 18
    /\ visited.ret.red # 171

\* ------------------------------------------------------------------ benchmark
RECURSIVE SumSeq(_)
SumSeq(s) == IF s = <<>> THEN 0 ELSE Head(s) + SumSeq(Tail(s))

\* n timed windows: the refill, then the counter read, one call, the counter read
RECURSIVE TimedWindows(_)
TimedWindows(n) ==
    IF n = 0 THEN <<>>
    ELSE <<"reinit", "start", "call", "end">> \o TimedWindows(n - 1)

\* C17: lv_fill_benchmark_run with benchmark_cycles = n >= 1 invokes the
\* function under test exactly n + 1 times, one untimed warm-up call and then
\* n timed calls; each pair of counter reads brackets exactly one call and
\* nothing else, and the function returns the accumulated cycles over n.
C17_WarmupPlusTimed ==
    /\ pc = "return" =>
          /\ visited.log = <<"call">> \o TimedWindows(test_matrix.benchmark_cycles)
          /\ Len(visited.costs) = test_matrix.benchmark_cycles
          /\ loop.total_cpu_count = SumSeq(visited.costs)
    /\ (pc \in {"run", "free", "done"} /\ visited.results # <<>>) =>
          visited.results[Len(visited.results)] =
              [total  |-> SumSeq(visited.costs),
               cycles |-> test_matrix.benchmark_cycles]

C17_Witness ==
    /\ pc = "return"
    /\ test_matrix.benchmark_cycles = BenchMaxCycles
    /\ loop.run = BenchRuns(test_matrix)
    /\ loop.total_cpu_count > test_matrix.benchmark_cycles
    /\ loop.ccount < loop.start_cpu_count

\* C18: in the fill-with-opacity benchmarks, at the start of each timed call
\* every pixel of the destination blend area holds the value it held at the
\* start of the first timed call of that run, for the static refill of the
\* common case and for the dynamic refill of the corner case.
C18_DestReinitialised ==
    (pc = "dut" /\ test_matrix.operation_type = "OPERATION_FILL_WITH_OPA") =>
        BenchDestArea(test_matrix, test_case, mem[test_case.dest_buf.blk])
            = visited.first_start

\* the objects of type benchmark_res_t: the type is declared, no table of it
\* is defined
BenchmarkResLUT == {}

\* the measured speedups of a finished test case meet the entry e
ThresholdMet(e) ==
    /\ e.api_function = test_matrix.operation_type
    /\ e.dest_color_format = test_matrix.name
    /\ Len(visited.results) = 4
    /\ 10 * visited.results[3].total >= e.res_improve * visited.results[1].total
    /\ 10 * visited.results[4].total >= e.res_improve_cc * visited.results[2].total

\* C19: a benchmark test passes only if a threshold entry exists for its key
\* and the measured speedup reference / accelerated reaches the threshold for
\* the common case and for the corner case; with no entry the test fails.
C19_PassOnlyAboveThreshold ==
    (pc = "done" /\ ~Unity.CurrentTestFailed) =>
        \E e \in BenchmarkResLUT : ThresholdMet(e)

\* one past the last byte a run over w x h pixels at p touches
BenchRegionEnd(tp, p, w, h) ==
    p.off + ((((h - 1) * tp.stride) + w) * tp.data_type_size)

\* C20: in every solid-fill benchmark the ideal-case destination is the
\* 16-byte aligned start of the allocation with the full WIDTH x HEIGHT
\* geometry, the corner-case destination starts exactly UNALIGN_BYTES = 1
\* byte after it with geometry (WIDTH - 1) x (HEIGHT - 1), and both regions
\* lie inside the allocation of STRIDE * HEIGHT * pixelSize + UNALIGN_BYTES.
C20_BenchGeometry ==
    (pc = "run" /\ test_matrix.operation_type = "OPERATION_FILL") =>
        LET tp  == test_matrix
            blk == heap.live[tp.dest_array.blk]
        IN /\ tp.dest_array.off = 0
           /\ blk.align = 16
           /\ tp.width = BenchWidth /\ tp.height = BenchHeight
           /\ tp.dest_array_cc = [blk |-> tp.dest_array.blk, off |-> UNALIGN_BYTES]
           /\ tp.cc_width = BenchWidth - 1 /\ tp.cc_height = BenchHeight - 1
           /\ blk.size = (BenchStride * BenchHeight * tp.data_type_size) + UNALIGN_BYTES
           /\ BenchRegionEnd(tp, tp.dest_array, tp.width, tp.height) <= blk.size
           /\ BenchRegionEnd(tp, tp.dest_array_cc, tp.cc_width, tp.cc_height) <= blk.size

\* ------------------------------------------------------------------ blend parameters
\* the out-parameters of the last get_blend_params hold the module's pointers
ParamsHandedOut ==
    /\ visited.out.blend_params_ret = test_case.s_blend_params
    /\ visited.out.area_ret = test_case.s_area
    /\ test_case.s_blend_params.blk \in DOMAIN heap.live
    /\ test_case.s_area.blk \in DOMAIN heap.live

\* C21: after any sequence of init_blend_params, get_blend_params and
\* free_blend_params calls, get_blend_params returns ESP_OK and hands out the
\* current structures if and only if an init has succeeded and free has not
\* been called since; otherwise it returns ESP_ERR_INVALID_STATE and leaves
\* the caller's two pointers unwritten.
C21_GetIffInitialised ==
    visited.fn = "get_blend_params"
        => IF visited.initialised
           THEN visited.ret = "ESP_OK" /\ ParamsHandedOut
           ELSE visited.ret = "ESP_ERR_INVALID_STATE" /\ visited.out = visited.before.out

C21_Witness ==
    /\ visited.fn = "get_blend_params"
    /\ visited.ret = "ESP_ERR_INVALID_STATE"
    /\ visited.init_blocks # {}
    /\ visited.calls = 3

\* the last call left the module's pointers, the structures and the heap as
\* it found them
ParamsUntouched ==
    /\ test_case = visited.before.statics
    /\ loop = visited.before.objs
    /\ heap = visited.before.heap
    /\ mem = visited.before.mem

\* C22: init_blend_params called while the module is initialised returns
\* ESP_ERR_INVALID_STATE, allocates nothing and leaves s_blend_params, s_area
\* and everything they point to unchanged; called while it is not initialised
\* (at start, after a free_blend_params) it returns ESP_OK when its
\* allocations succeed.
C22_InitOnlyOnce ==
    visited.fn = "init_blend_params"
        => IF visited.before.initialised
           THEN visited.ret = "ESP_ERR_INVALID_STATE" /\ ParamsUntouched
           ELSE /\ visited.ret # "ESP_ERR_INVALID_STATE"
                /\ (\A i \in DOMAIN visited.oks : visited.oks[i])
                      => (visited.ret = "ESP_OK" /\ visited.initialised)

C22_Witness ==
    /\ visited.fn = "init_blend_params"
    /\ visited.ret = "ESP_ERR_INVALID_STATE"
    /\ visited.before.initialised
    /\ test_matrix.harness = "main"
    /\ Cardinality(DOMAIN heap.live) = 6

\* C23: free_blend_params always returns ESP_OK and leaves both module
\* pointers NULL; every block the last successful init_blend_params
\* allocated is then freed, and freed exactly once, and a free_blend_params
\* called while nothing is initialised (at start, twice in a row) frees
\* nothing.
C23_FreeReleasesAll ==
    visited.fn = "free_blend_params"
        => /\ visited.ret = "ESP_OK"
           /\ test_case = [s_blend_params |-> NULL, s_area |-> NULL]
           /\ \A b \in visited.init_blocks :
                 b \notin DOMAIN heap.live /\ heap.frees[b] = 1
           /\ \A b \in DOMAIN heap.frees : heap.frees[b] <= 1
           /\ ~visited.before.initialised =>
                 (heap = visited.before.heap /\ mem = visited.before.mem
                  /\ loop = visited.before.objs)

C23_Witness ==
    /\ visited.fn = "free_blend_params"
    /\ ~visited.before.initialised
    /\ test_matrix.harness = "main"
    /\ Cardinality(visited.init_blocks) = 6
    /\ \A b \in visited.init_blocks : heap.frees[b] = 1

\* C30: when init_blend_params returns ESP_ERR_NO_MEM, none of the blocks it
\* allocated during that call remains allocated and the module stays
\* uninitialised, with s_area and s_blend_params NULL.
C30_NoLeakOnNoMem ==
    (visited.fn = "init_blend_params" /\ visited.ret = "ESP_ERR_NO_MEM")
        => /\ \A b \in visited.blocks : b \notin DOMAIN heap.live
           /\ test_case = [s_blend_params |-> NULL, s_area |-> NULL]
           /\ ~visited.initialised

\* C24: the elapsed cycles of one timed invocation, (end - start) in unsigned
\* 32-bit arithmetic, are the cycles the invocation took whenever that is
\* below 2^32, also when the counter wraps between the two reads; the 64-bit
\* total is the sum of the elapsed counts, it does not overflow over
\* benchmark_cycles iterations.
C24_ElapsedExact ==
    /\ pc = "end" =>
          ElapsedCycles(loop.start_cpu_count, loop.ccount)
              = visited.costs[Len(visited.costs)]
    /\ pc \in {"loop", "start", "dut", "return"} =>
          /\ loop.total_cpu_count = SumSeq(visited.costs)
          /\ loop.total_cpu_count <= loop.i * (CcountMod - 1)
          /\ loop.i * (CcountMod - 1) < TotalMod

C24_Witness ==
    /\ pc = "loop"
    /\ loop.i = BenchMaxCycles
    /\ loop.ccount < loop.start_cpu_count
    /\ loop.total_cpu_count = BenchMaxCycles * 2

\* ------------------------------------------------------------------ termination
\* each value of the sequence is greater than the one before
StrictlyIncreasing(s) == \A i \in 1 .. Len(s) - 1 : s[i] < s[i + 1]

\* the opacity loops advance: after the entry both steps are at least 1, the
\* opacities an opacity loop has visited are strictly increasing and there
\* are at most max - min + 1 of them
ImageOpaLoopsAdvance ==
    pc # "entry" =>
        /\ test_matrix.bg_opa.step >= 1 /\ loop.bg_opa_step >= 1
        /\ test_matrix.fg_opa.step >= 1 /\ loop.fg_opa_step >= 1
        /\ StrictlyIncreasing(visited.bg)
        /\ StrictlyIncreasing(visited.fg)
        /\ Len(visited.bg) <= test_matrix.bg_opa.max - test_matrix.bg_opa.min + 1
        /\ Len(visited.fg) <= test_matrix.fg_opa.max - test_matrix.fg_opa.min + 1

\* C25: the image test-matrix generator terminates for every matrix with
\* finite ranges and stride and unalignment steps of at least 1, also when an
\* opacity step is unset (0): the zero step is replaced by 1 before the loops
\* start, every iteration of an opacity loop strictly increases the opacity,
\* an opacity loop runs at most max - min + 1 times, and the generator
\* reaches its end (or the test aborts on a failed assertion).
C25_ImageTerminates ==
    /\ []ImageOpaLoopsAdvance
    /\ <>(pc \in {"done", "aborted"})

C25_Witness ==
    /\ pc = "done"
    /\ loop.given = [bg |-> 0, fg |-> 0]
    /\ test_matrix.bg_opa.min < test_matrix.bg_opa.max
    /\ test_matrix.test_combinations_count > 1
    /\ ~Unity.CurrentTestFailed

\* the opacities of a finished opacity loop start at lo, end at hi, increase
\* strictly and stay inside lo..hi
VisitsBounds(s, lo, hi) ==
    /\ s[1] = lo
    /\ s[Len(s)] = hi
    /\ StrictlyIncreasing(s)
    /\ \A i \in 1 .. Len(s) : lo <= s[i] /\ s[i] <= hi

\* C27: for every opacity range 0 <= min <= max <= 255 with fine step 1, an
\* opacity loop of the image matrix with UPDATE_OPA_STEP visits min and max
\* exactly, in strictly increasing order, and no value outside min..max.
C27_VisitsMinAndMax ==
    /\ (pc = "bg" /\ visited.fg # <<>> /\ test_matrix.fg_opa.step = 1) =>
          VisitsBounds(visited.fg, test_matrix.fg_opa.min, test_matrix.fg_opa.max)
    /\ (pc = "dest_unalign" /\ visited.bg # <<>> /\ test_matrix.bg_opa.step = 1) =>
          VisitsBounds(visited.bg, test_matrix.bg_opa.min, test_matrix.bg_opa.max)

\* C26: the fill test-matrix generator terminates for every matrix whose
\* bg_opa_step_percent or fg_opa_step_percent is unset (0), for every
\* min_bg_opa and min_fg_opa in 0..255: it reaches its end (or the test
\* aborts on a failed assertion).
C26_FillTerminates == <>(pc \in {"done", "aborted"})

\* ------------------------------------------------------------------ fill_test_bufs
\* the byte offsets of a destination buffer from its misaligned start to the
\* end of its trailing guard
DestRange == LeadingGuard \cup ActiveRegion \cup TrailingGuard

\* C28: fill_test_bufs of the fill test writes only inside the memory it
\* allocated, for every operation type (OPERATION_FILL,
\* OPERATION_FILL_WITH_OPA), pixel size (2 or 4), geometry and unalign_byte;
\* when it returns the ASM and the ANSI buffer are byte-identical over the
\* leading guard, the active region and the trailing guard.
C28_FillBufsInside ==
    (pc = "blend_asm" /\ test_matrix.app = "fill") =>
        /\ FillInitLastByte(test_case) < heap.live[Dest.asm.blk].size
        /\ FillInitLastByte(test_case) < heap.live[Dest.ansi.blk].size
        /\ \A o \in DestRange : mem[Dest.asm.blk][o] = mem[Dest.ansi.blk][o]

\* C29: fill_test_bufs of the image test, for every pair of source and
\* destination pixel sizes (each 2 or 4), zeroes the whole destination range
\* with both guards (total_dest_buf_len * dest_data_type_size bytes from the
\* misaligned start) before it writes the pattern, and writes no byte outside
\* the destination and source allocations.
C29_ImageBufsZeroed ==
    (pc = "blend_asm" /\ test_matrix.app = "image") =>
        /\ ImageDestMemsetLen(test_case)
              = test_case.total_dest_buf_len * test_case.dest_data_type_size
        /\ \A b \in {Dest.asm.blk, Dest.ansi.blk} :
              /\ \A o \in DestRange : mem[b][o] # Garbage
              /\ ImageDestLastByte(test_case) < heap.live[b].size
        /\ ImageSrcLastByte(test_case) < heap.live[test_case.buf.p_src_alloc.blk].size

====
